---- MODULE Spec2Model ----
(***************************************************************************)
(* Billing application: invoice calculation, invoice numbering, and the    *)
(* save / edit / print flow of the App component against the document      *)
(* store.                                                                  *)
(*                                                                         *)
(* Conventions of the model                                                *)
(*  - an optional value (undefined / null in the source) is a sequence of  *)
(*    length 0 or 1: <<>> is "absent", <<v>> is "present with value v";     *)
(*  - text that the code inspects character by character (firm name,       *)
(*    custom prefix) is a sequence of one-character strings; text that is  *)
(*    only built and compared (the invoice number) is a string;            *)
(*  - money: a price is a whole number of paise; computed amounts are      *)
(*    carried in units of 1/Scale paise, so that price * quantity *        *)
(*    (rate / 100) is computed without any rounding, as the source         *)
(*    computes it on numbers.                                              *)
(***************************************************************************)
EXTENDS Integers, Sequences, FiniteSets, TLC

VARIABLES
    user,            \* App state `user`: <<>> or <<uid>>
    view,            \* App state `view`
    currentInvoice,  \* App state `currentInvoice`: <<>> or <<InvoiceData>>
    editingInvoice,  \* App state `editingInvoice`: <<>> or <<InvoiceData>>
    firmDetails,     \* App state `firmDetails`: <<>> or <<FirmDetails>>
    isSaving,        \* state `isSaving` of the mounted Invoice component
    storeInvoices,   \* store collection `invoices`: record i has document id i
    storeFirm,       \* store document firmDetails/<uid>
    saves,           \* handleSaveInvoice calls awaiting the store
    firmSubmits,     \* FirmSetup.handleSubmit calls awaiting the store
    created,         \* history: a create for the displayed preview reached the store
    lastSave,        \* history: outcome of the save that completed in the last step
    lastPreview,     \* history: the last two sequential numbers previewed since the last save step
    printed,         \* history: what the last step handed to window.print
    firm0,           \* history: the firm record the session started with
    products,        \* App state `products`
    customers,       \* App state `customers`
    storeProducts,   \* store collection products: document n, or <<>> once deleted
    storeCustomers,  \* store collection customers: document n, or <<>> once deleted
    masterCalls,     \* product and customer handler calls awaiting the store
    lastMaster       \* history: whether the last step was a handler finishing, and how

\* the master data: the product and customer lists and their store collections
masterVars ==
    << products, customers, storeProducts, storeCustomers, masterCalls, lastMaster >>

\* what the billing handlers leave alone
billingFrame == << firm0, masterVars >>

\* what sign-in and sign-out leave alone: they reload the two lists
storeFrame == << firm0, storeProducts, storeCustomers, masterCalls, lastMaster >>

vars == << user, view, currentInvoice, editingInvoice, firmDetails, isSaving,
           storeInvoices, storeFirm, saves, firmSubmits, created, lastSave,
           lastPreview, printed, firm0, masterVars >>

-----------------------------------------------------------------------------
(* Bounds of the model *)

MaxItems == 2          \* longest list of line items handed to the calculator
MaxInvoices == 2       \* invoice records the store holds at most
MaxInFlight == 1       \* handleSaveInvoice calls awaiting the store at once
MaxTime == 2           \* values Date.now() can return
MaxFirmInFlight == 1   \* FirmSetup.handleSubmit calls awaiting the store at once
MaxNameLen == 5        \* longest firm name over the three-character alphabet
MaxProductDocs == 2
MaxCustomerDocs == 2     \* documents ever created in the products or the customers collection
MaxMasterInFlight == 1 \* product and customer handler calls awaiting the store at once

-----------------------------------------------------------------------------
(* Program constants *)

\* the divisor of `(item.gstRate ?? GST_RATE * 100) / 100`; amounts are carried
\* in 1/Scale of a paisa so that the division is exact
Scale == 100

\* GST_RATE * 100: the global default rate in percent (./constants)
GST_RATE_PERCENT == 5

-----------------------------------------------------------------------------
(* Optional values *)

None == <<>>
Some(v) == <<v>>
IsSet(o) == o # <<>>
Val(o) == o[1]

\* a ?? b
Coalesce(a, b) == IF IsSet(a) THEN Val(a) ELSE b

\* a || b on numbers: 0 is falsy as well
OrElse(a, b) == IF IsSet(a) /\ Val(a) # 0 THEN Val(a) ELSE b

-----------------------------------------------------------------------------
(* Text *)

Upper == [c \in {"a", "b", "c", "h", "i", "l", "m", "n", "o", "r", "s", "e", "v"} |->
            CASE c = "a" -> "A" [] c = "b" -> "B" [] c = "h" -> "H" [] c = "c" -> "C"
              [] c = "i" -> "I" [] c = "l" -> "L" [] c = "m" -> "M"
              [] c = "n" -> "N" [] c = "o" -> "O" [] c = "r" -> "R"
              [] c = "s" -> "S" [] c = "e" -> "E" [] c = "v" -> "V"]

LowerCase == DOMAIN Upper
UpperCase == {Upper[c] : c \in LowerCase}
Digit == {"0", "1", "2", "7"}
Space == {" "}
Punct == {"&", "-", "."}
Char == LowerCase \cup UpperCase \cup Digit \cup Space \cup Punct

\* /[a-zA-Z0-9]/
IsAlnum(c) == c \in LowerCase \cup UpperCase \cup Digit

\* String.prototype.toUpperCase on one character
ToUpperChar(c) == IF c \in LowerCase THEN Upper[c] ELSE c

ToUpperCase(s) == [i \in 1..Len(s) |-> ToUpperChar(s[i])]

\* s.replace(/[^a-zA-Z0-9]/g, '')
StripNonAlnum(s) == SelectSeq(s, IsAlnum)

\* s.substring(0, n)
Substring0(s, n) == SubSeq(s, 1, IF n < Len(s) THEN n ELSE Len(s))

RECURSIVE TrimLeft(_)
TrimLeft(s) == IF s # <<>> /\ Head(s) \in Space THEN TrimLeft(Tail(s)) ELSE s

RECURSIVE TrimRight(_)
TrimRight(s) ==
    IF s # <<>> /\ s[Len(s)] \in Space THEN TrimRight(SubSeq(s, 1, Len(s) - 1)) ELSE s

\* String.prototype.trim
Trim(s) == TrimRight(TrimLeft(s))

\* s.split(/\s+/) of a trimmed, non-empty s: the maximal runs of non-space
RECURSIVE SplitWords(_, _, _)
SplitWords(s, cur, acc) ==
    IF s = <<>> THEN Append(acc, cur)
    ELSE IF Head(s) \in Space
         THEN SplitWords(TrimLeft(s), <<>>, Append(acc, cur))
         ELSE SplitWords(Tail(s), Append(cur, Head(s)), acc)

\* the characters of s as one string
RECURSIVE Join(_)
Join(s) == IF s = <<>> THEN "" ELSE Head(s) \o Join(Tail(s))

\* words.slice(0, Math.min(5, words.length)).map(w => strip(w)[0]).filter(c => c)
RECURSIVE Initials(_)
Initials(words) ==
    IF words = <<>> THEN <<>>
    ELSE LET w == StripNonAlnum(Head(words))
         IN (IF w = <<>> THEN <<>> ELSE << Head(w) >>) \o Initials(Tail(words))

\* x || 'INV' on text
OrINV(s) == IF s = <<>> THEN << "I", "N", "V" >> ELSE s

\* a derivation that takes the first 3 characters whatever the number of words
generateInvoicePrefixFirstThree(firmName) ==
    IF firmName = <<>> \/ Trim(firmName) = <<>>
    THEN << "I", "N", "V" >>
    ELSE OrINV(Substring0(ToUpperCase(StripNonAlnum(firmName)), 3))

\* a derivation without `|| 'INV'` on its three word-count branches
generateInvoicePrefixNoFallback(firmName) ==
    IF firmName = <<>> \/ Trim(firmName) = <<>>
    THEN << "I", "N", "V" >>
    ELSE LET cleanName == ToUpperCase(StripNonAlnum(firmName))
             words == SplitWords(Trim(firmName), <<>>, <<>>)
         IN IF Len(words) = 1
            THEN Substring0(cleanName, IF 4 < Len(cleanName) THEN 4 ELSE Len(cleanName))
            ELSE IF Len(words) = 2
            THEN LET word1 == ToUpperCase(StripNonAlnum(words[1]))
                     word2 == ToUpperCase(StripNonAlnum(words[2]))
                 IN Substring0(word1, 2) \o Substring0(word2, 2)
            ELSE ToUpperCase(Initials(
                     SubSeq(words, 1, IF 5 < Len(words) THEN 5 ELSE Len(words))))

\* generateInvoicePrefix(firmName); firmName is <<>> (missing or empty) or text
generateInvoicePrefix(firmName) ==
    IF firmName = <<>> \/ Trim(firmName) = <<>>
    THEN << "I", "N", "V" >>
    ELSE LET cleanName == ToUpperCase(StripNonAlnum(firmName))
             words == SplitWords(Trim(firmName), <<>>, <<>>)
         IN IF Len(words) = 1
            THEN OrINV(Substring0(cleanName, IF 4 < Len(cleanName) THEN 4 ELSE Len(cleanName)))
            ELSE IF Len(words) = 2
            THEN LET word1 == ToUpperCase(StripNonAlnum(words[1]))
                     word2 == ToUpperCase(StripNonAlnum(words[2]))
                 IN OrINV(Substring0(word1, 2) \o Substring0(word2, 2))
            ELSE OrINV(ToUpperCase(Initials(
                     SubSeq(words, 1, IF 5 < Len(words) THEN 5 ELSE Len(words)))))

-----------------------------------------------------------------------------
(* Bill calculator (handleGenerateBill, first part) *)

\* item.product.price * item.quantity, in 1/Scale paise
ItemTotal(item) == item.product.price * item.quantity * Scale

\* item.gstRate || GST_RATE * 100: an explicit rate of 0 falls back to the default
ItemGstRatePercentOr(item) == OrElse(item.gstRate, GST_RATE_PERCENT)

\* item.gstRate ?? GST_RATE * 100
ItemGstRatePercent(item) == Coalesce(item.gstRate, GST_RATE_PERCENT)

\* itemTotal * itemGstRate with itemGstRate = percent / 100
ItemGst(item) == (ItemTotal(item) * ItemGstRatePercent(item)) \div 100

\* billItems.reduce((acc, item) => acc + item.product.price * item.quantity, 0)
RECURSIVE ReduceSubtotal(_, _)
ReduceSubtotal(acc, billItems) ==
    IF billItems = <<>> THEN acc
    ELSE ReduceSubtotal(acc + ItemTotal(Head(billItems)), Tail(billItems))

\* billItems.reduce((acc, item) => acc + itemTotal * itemGstRate, 0)
RECURSIVE ReduceGst(_, _)
ReduceGst(acc, billItems) ==
    IF billItems = <<>> THEN acc
    ELSE ReduceGst(acc + ItemGst(Head(billItems)), Tail(billItems))

\* a reduce that takes the first item as its initial value and so drops it
CalcSubtotalSkipFirst(billItems) ==
    IF billItems = <<>> THEN 0 ELSE ReduceSubtotal(0, Tail(billItems))

CalcSubtotal(billItems) == ReduceSubtotal(0, billItems)

CalcGstAmount(billItems) == ReduceGst(0, billItems)

CalcGrandTotal(billItems) == CalcSubtotal(billItems) + CalcGstAmount(billItems)

-----------------------------------------------------------------------------
(* Invoice number generator (handleGenerateBill, second part) *)

\* invoiceFormat of a firm record that may be absent
FormatOf(firm) == IF IsSet(firm) THEN Val(firm).invoiceFormat ELSE None

\* invoiceFormat.currentNumber of a firm record, absent when any level is
CurrentNumberOf(firm) ==
    IF IsSet(FormatOf(firm)) THEN Val(FormatOf(firm)).currentNumber ELSE None

\* firmDetails?.invoiceFormat?.type === 'sequential'
IsSequential(firm) ==
    IsSet(FormatOf(firm)) /\ Val(FormatOf(firm)).type = "sequential"

\* (currentNumber ?? (startNumber || 1) - 1) + 1
NextNumber(fmt) == Coalesce(fmt.currentNumber, OrElse(fmt.startNumber, 1) - 1) + 1

\* firmDetails.displaySettings?.customInvoicePrefix
CustomPrefix(firm) == IF IsSet(firm) THEN Val(firm).customInvoicePrefix ELSE <<>>

\* prefix ? `${prefix}-${nextNum}` : `${nextNum}`
SequentialInvoiceNumber(firm) ==
    LET nextNum == NextNumber(Val(FormatOf(firm)))
        prefix == CustomPrefix(firm)
    IN IF prefix # <<>> THEN Join(prefix) \o "-" \o ToString(nextNum)
       ELSE ToString(nextNum)

\* a freeform number that always takes the prefix derived from the firm name
FreeformInvoiceNumberDerivedOnly(firm, now) ==
    Join(generateInvoicePrefix(IF IsSet(firm) THEN Val(firm).firmName ELSE <<>>))
        \o "-" \o ToString(now)

\* `${customInvoicePrefix || generateInvoicePrefix(firmName)}-${Date.now()}`
FreeformInvoiceNumber(firm, now) ==
    LET invoicePrefix ==
            IF CustomPrefix(firm) # <<>> THEN CustomPrefix(firm)
            ELSE generateInvoicePrefix(IF IsSet(firm) THEN Val(firm).firmName ELSE <<>>)
    IN Join(invoicePrefix) \o "-" \o ToString(now)

\* a generator that numbers an edited invoice like a new one
GenerateInvoiceNumberIgnoringEdit(editing, firm, now) ==
    IF IsSequential(firm) THEN SequentialInvoiceNumber(firm)
    ELSE FreeformInvoiceNumber(firm, now)

\* the if / else-if / else of handleGenerateBill
GenerateInvoiceNumber(editing, firm, now) ==
    IF IsSet(editing) THEN Val(editing).invoiceNumber
    ELSE IF IsSequential(firm) THEN SequentialInvoiceNumber(firm)
    ELSE FreeformInvoiceNumber(firm, now)

\* invoiceBaseData
InvoiceBaseData(customerName, customerPhone, billItems, billDate, now) ==
    [ id            |-> IF IsSet(editingInvoice) /\ IsSet(Val(editingInvoice).id)
                        THEN Val(editingInvoice).id ELSE None,
      invoiceNumber |-> GenerateInvoiceNumber(editingInvoice, firmDetails, now),
      date          |-> billDate,
      customerName  |-> customerName,
      customerPhone |-> customerPhone,
      items         |-> billItems,
      subtotal      |-> CalcSubtotal(billItems),
      gstAmount     |-> CalcGstAmount(billItems),
      grandTotal    |-> CalcGrandTotal(billItems),
      userId        |-> Val(user) ]

-----------------------------------------------------------------------------
(* Data the behaviours draw from *)

Product1 == [id |-> 1, name |-> "oil", price |-> 100, docId |-> Some("p1")]
Product2 == [id |-> 2, name |-> "ghee", price |-> 50, docId |-> None]

BillItem(product, quantity, gstRate) ==
    [product |-> product, quantity |-> quantity, lineId |-> None, gstRate |-> gstRate]

\* the documented scenario: 2 x 100 at 5 %, 1 x 50 at 18 %
ScenarioItems == << BillItem(Product1, 2, Some(5)), BillItem(Product2, 1, Some(18)) >>

\* item lists of a billing session: the save flow never looks into the items, so
\* one list, different from the items of the earlier invoice, stands for all
SessionItemLists ==
    { << BillItem(Product1, 2, Some(5)), BillItem(Product2, 1, None) >> }

Times == 1..MaxTime

InvoiceFormat(type, startNumber, currentNumber) ==
    [type |-> type, startNumber |-> startNumber, currentNumber |-> currentNumber]

Firm(firmName, prefix, invoiceFormat) ==
    [ userId |-> "u1", firmName |-> firmName, customInvoicePrefix |-> prefix,
      invoiceFormat |-> invoiceFormat ]

ShreeOilMill ==
    << "S", "h", "r", "e", "e", " ", "O", "i", "l", " ", "M", "i", "l", "l" >>

\* firm records of a billing session
SessionFirms ==
    { Firm(ShreeOilMill, << "A", "B", "C" >>,
           Some(InvoiceFormat("sequential", Some(1), Some(7)))),
      Firm(ShreeOilMill, <<>>, Some(InvoiceFormat("freeform", None, None))) }

\* the product and the customer the owner entered in an earlier session
StockProduct == [id |-> 1, name |-> "oil", price |-> 100, docId |-> Some(1)]
StockCustomer == [id |-> 1, name |-> "bina", phone |-> "98", userId |-> "u1"]

\* an invoice saved in an earlier session
EarlierInvoice ==
    LET items == << BillItem(Product2, 1, Some(18)) >>
    IN [ invoiceNumber |-> "OLD-1", date |-> "d1", customerName |-> "asha",
         customerPhone |-> "98", items |-> items,
         subtotal |-> CalcSubtotal(items), gstAmount |-> CalcGstAmount(items),
         grandTotal |-> CalcGrandTotal(items), userId |-> "u1" ]

-----------------------------------------------------------------------------
(* Rendering: which component is mounted *)

\* App render: <Invoice/> is mounted while currentInvoice is set
InvoiceShown(ci) == IsSet(ci)

\* App render: <FirmSetup existingDetails/> is mounted in the settings view
FirmSetupShown(v, ci) == v = "settings" /\ ~IsSet(ci)

\* calls whose component was unmounted: their setState calls have no effect
Orphan(calls) == [k \in 1..Len(calls) |-> [calls[k] EXCEPT !.live = FALSE]]

\* the in-flight saves after a step that leaves currentInvoice = ci
SavesAfter(calls, ci) == IF InvoiceShown(ci) THEN calls ELSE Orphan(calls)

\* the in-flight firm submissions after a step that leaves view = v, currentInvoice = ci
SubmitsAfter(calls, v, ci) == IF FirmSetupShown(v, ci) THEN calls ELSE Orphan(calls)

RemoveAt(s, k) == SubSeq(s, 1, k - 1) \o SubSeq(s, k + 1, Len(s))

-----------------------------------------------------------------------------
(* Initial state: the owner is signed in and the firm record is loaded *)

InitSessionIn(firms, startView) ==
    /\ user = Some("u1")
    /\ view = startView
    /\ currentInvoice = None
    /\ editingInvoice = None
    /\ \E firm \in firms :
         firmDetails = Some(firm) /\ storeFirm = Some(firm) /\ firm0 = firm
    /\ isSaving = FALSE
    /\ storeInvoices = << EarlierInvoice >>
    /\ saves = <<>>
    /\ firmSubmits = <<>>
    /\ created = FALSE
    /\ lastSave = None
    /\ lastPreview = <<>>
    /\ printed = None
    /\ products = << StockProduct >>
    /\ storeProducts = << Some([ id |-> StockProduct.id, name |-> StockProduct.name,
                                 price |-> StockProduct.price, userId |-> "u1" ]) >>
    /\ customers = << StockCustomer >>
    /\ storeCustomers = << Some([ name |-> StockCustomer.name, phone |-> StockCustomer.phone,
                                  userId |-> "u1" ]) >>
    /\ masterCalls = <<>>
    /\ lastMaster = None

InitSession(firms) == InitSessionIn(firms, "form")

Init == InitSession(SessionFirms)

-----------------------------------------------------------------------------
(* BillingForm -> handleGenerateBill *)

\* a generator that consumes the number it previews
handleGenerateBillAdvancing(customerName, customerPhone, billItems, billDate, now) ==
    /\ IsSet(user)
    /\ currentInvoice' = Some(InvoiceBaseData(customerName, customerPhone, billItems,
                                              billDate, now))
    /\ firmDetails' =
         IF ~IsSet(editingInvoice) /\ IsSequential(firmDetails)
         THEN Some([Val(firmDetails) EXCEPT !.invoiceFormat =
                      Some([Val(@) EXCEPT !.currentNumber =
                                Some(NextNumber(Val(FormatOf(firmDetails))))])])
         ELSE firmDetails
    /\ UNCHANGED << user, view, editingInvoice, storeInvoices, storeFirm >>

handleGenerateBill(customerName, customerPhone, billItems, billDate, now) ==
    /\ IsSet(user)
    /\ currentInvoice' = Some(InvoiceBaseData(customerName, customerPhone, billItems,
                                              billDate, now))
    /\ UNCHANGED << user, view, editingInvoice, firmDetails, storeInvoices, storeFirm >>

\* the user fills the billing form and presses "Generate"
GenerateBill(itemLists, times) ==
    /\ view = "form" /\ ~IsSet(currentInvoice) /\ IsSet(firmDetails)
    /\ \E billItems \in itemLists, now \in times :
         handleGenerateBill("asha", "98", billItems, "d1", now)
    /\ created' = FALSE
    /\ isSaving' = FALSE                      \* a new Invoice component mounts
    /\ lastPreview' =
         IF ~IsSet(editingInvoice) /\ IsSequential(firmDetails)
         THEN IF Len(lastPreview) < 2
              THEN Append(lastPreview, Val(currentInvoice').invoiceNumber)
              ELSE << lastPreview[2], Val(currentInvoice').invoiceNumber >>
         ELSE lastPreview
    /\ lastSave' = None /\ printed' = None
    /\ UNCHANGED << saves, firmSubmits >>

-----------------------------------------------------------------------------
(* Navigation *)

\* handleBack
Back ==
    /\ IsSet(currentInvoice)
    /\ currentInvoice' = None
    /\ isSaving' = FALSE
    /\ saves' = Orphan(saves)
    /\ firmSubmits' = SubmitsAfter(firmSubmits, view, None)
    /\ created' = FALSE
    /\ lastSave' = None /\ printed' = None
    /\ UNCHANGED << user, view, editingInvoice, firmDetails, storeInvoices, storeFirm,
                    lastPreview >>

\* switchView(newView)
SwitchView(newView) ==
    /\ IsSet(firmDetails)
    /\ view' = newView
    /\ currentInvoice' = None
    /\ editingInvoice' = None
    /\ isSaving' = FALSE
    /\ saves' = Orphan(saves)
    /\ firmSubmits' = SubmitsAfter(firmSubmits, newView, None)
    /\ created' = FALSE
    /\ lastSave' = None /\ printed' = None
    /\ UNCHANGED << user, firmDetails, storeInvoices, storeFirm, lastPreview >>

\* the invoice BillHistory hands to onViewInvoice / onEditInvoice: record i of the store
HistoryInvoice(i) ==
    LET r == storeInvoices[i]
    IN [ id |-> Some(i), invoiceNumber |-> r.invoiceNumber, date |-> r.date,
         customerName |-> r.customerName, customerPhone |-> r.customerPhone,
         items |-> r.items, subtotal |-> r.subtotal, gstAmount |-> r.gstAmount,
         grandTotal |-> r.grandTotal, userId |-> r.userId ]

HistoryShown == view = "history" /\ ~IsSet(currentInvoice) /\ IsSet(firmDetails)

\* handleViewInvoice(invoice)
ViewInvoice(i) ==
    /\ HistoryShown
    /\ currentInvoice' = Some(HistoryInvoice(i))
    /\ isSaving' = FALSE
    /\ created' = FALSE
    /\ lastSave' = None /\ printed' = None
    /\ UNCHANGED << user, view, editingInvoice, firmDetails, storeInvoices, storeFirm,
                    saves, firmSubmits, lastPreview >>

\* handleEditInvoice(invoice)
EditInvoice(i) ==
    /\ HistoryShown
    /\ editingInvoice' = Some(HistoryInvoice(i))
    /\ view' = "form"
    /\ currentInvoice' = None
    /\ isSaving' = FALSE
    /\ created' = FALSE
    /\ lastSave' = None /\ printed' = None
    /\ UNCHANGED << user, firmDetails, storeInvoices, storeFirm, saves, firmSubmits,
                    lastPreview >>

-----------------------------------------------------------------------------
(* Invoice.handlePrint -> App.handleSaveInvoice *)

\* sanitizedItems with `gstRate ? { gstRate } : {}`: a rate of 0 is dropped
SanitizeItemTruthyRate(item) ==
    [ product  |-> [ id |-> item.product.id, name |-> item.product.name,
                     price |-> item.product.price,
                     docId |-> IF IsSet(item.product.docId) THEN item.product.docId
                               ELSE None ],
      quantity |-> item.quantity,
      lineId   |-> IF IsSet(item.lineId) THEN item.lineId ELSE None,
      gstRate  |-> IF IsSet(item.gstRate) /\ Val(item.gstRate) # 0 THEN item.gstRate
                   ELSE None ]

\* sanitizedItems: each item rebuilt from its defined fields
SanitizeItem(item) ==
    [ product  |-> [ id |-> item.product.id, name |-> item.product.name,
                     price |-> item.product.price,
                     docId |-> IF IsSet(item.product.docId) THEN item.product.docId
                               ELSE None ],
      quantity |-> item.quantity,
      lineId   |-> IF IsSet(item.lineId) THEN item.lineId ELSE None,
      gstRate  |-> IF IsSet(item.gstRate) THEN item.gstRate ELSE None ]

\* finalDataToSave: invoiceData without its id, items sanitized, date kept
FinalDataToSave(invoiceData) ==
    [ invoiceNumber |-> invoiceData.invoiceNumber,
      customerName  |-> invoiceData.customerName,
      customerPhone |-> invoiceData.customerPhone,
      items         |-> [k \in 1..Len(invoiceData.items) |->
                            SanitizeItem(invoiceData.items[k])],
      subtotal      |-> invoiceData.subtotal,
      gstAmount     |-> invoiceData.gstAmount,
      grandTotal    |-> invoiceData.grandTotal,
      userId        |-> invoiceData.userId,
      date          |-> invoiceData.date ]

\* {...prev.invoiceFormat, currentNumber: n}; spreading a missing map gives no type
WithCurrentNumber(format, n) ==
    IF IsSet(format) THEN Some([Val(format) EXCEPT !.currentNumber = Some(n)])
    ELSE Some(InvoiceFormat("undefined", None, Some(n)))

\* a handlePrint without `if (isSaving) return` and without disabled={isSaving}
handlePrintSaveUnguarded(maxInFlight) ==
    /\ IsSet(currentInvoice)
    /\ view = "form" \/ ~IsSet(Val(currentInvoice).id)
    /\ IsSet(user)
    /\ Len(saves) < maxInFlight
    /\ isSaving' = TRUE
    /\ saves' = Append(saves,
         [ inv     |-> Val(currentInvoice),
           firm    |-> firmDetails,
           uid     |-> Val(user),
           pc      |-> IF IsSet(Val(currentInvoice).id) THEN "update" ELSE "create",
           live    |-> TRUE,
           savedId |-> Val(currentInvoice).id,
           newCurrentNumber |-> None ])
    /\ lastSave' = None /\ printed' = None /\ lastPreview' = <<>>
    /\ UNCHANGED << user, view, currentInvoice, editingInvoice, firmDetails,
                    storeInvoices, storeFirm, firmSubmits, created >>

\* handlePrint, the branch that saves: setIsSaving(true), then handleSaveInvoice
\* runs up to its first await (updateDoc when the invoice has an id, else addDoc);
\* at most maxInFlight calls await the store at a time
handlePrintSave(maxInFlight) ==
    /\ IsSet(currentInvoice) /\ ~isSaving
    /\ view = "form" \/ ~IsSet(Val(currentInvoice).id)
    /\ IsSet(user)
    /\ Len(saves) < maxInFlight
    /\ isSaving' = TRUE
    /\ saves' = Append(saves,
         [ inv     |-> Val(currentInvoice),
           firm    |-> firmDetails,
           uid     |-> Val(user),
           pc      |-> IF IsSet(Val(currentInvoice).id) THEN "update" ELSE "create",
           live    |-> TRUE,
           savedId |-> Val(currentInvoice).id,
           newCurrentNumber |-> None ])
    /\ lastSave' = None /\ printed' = None /\ lastPreview' = <<>>
    /\ UNCHANGED << user, view, currentInvoice, editingInvoice, firmDetails,
                    storeInvoices, storeFirm, firmSubmits, created >>

PrintSave == handlePrintSave(MaxInFlight)

\* handlePrint, the branch that only prints: a persisted invoice outside the form view
PrintOnly ==
    /\ IsSet(currentInvoice) /\ ~isSaving
    /\ ~(view = "form" \/ ~IsSet(Val(currentInvoice).id))
    /\ printed' = currentInvoice
    /\ lastSave' = None
    /\ UNCHANGED << user, view, currentInvoice, editingInvoice, firmDetails, isSaving,
                    storeInvoices, storeFirm, saves, firmSubmits, created, lastPreview >>

Outcome(s, result, counterFailed) ==
    Some([ result |-> result, inv |-> s.inv, savedId |-> s.savedId,
           created |-> IsSet(s.savedId) /\ ~IsSet(s.inv.id),
           counterFailed |-> counterFailed,
           firmBefore |-> s.firm ])

\* the tail of handleSaveInvoice's try block (return true) and of handlePrint
\* (setIsSaving(false), window.print()) for call k, whose record is now s
SaveReturnsTrue(k, s) ==
    /\ currentInvoice' = Some([s.inv EXCEPT !.id = s.savedId])
    /\ editingInvoice' = None
    /\ view' = "history"
    /\ isSaving' = IF s.live \/ ~IsSet(currentInvoice) THEN FALSE ELSE isSaving
    /\ saves' = RemoveAt(saves, k)
    /\ firmSubmits' = Orphan(firmSubmits)
    /\ printed' = currentInvoice'
    /\ lastSave' = Outcome(s, TRUE, FALSE)
    /\ lastPreview' = <<>>
    /\ created' = FALSE
    /\ UNCHANGED user

\* a handlePrint that goes on to window.print() when the save returned false
SaveReturnsFalsePrinting(k, s, counterFailed) ==
    /\ isSaving' = IF s.live THEN FALSE ELSE isSaving
    /\ saves' = RemoveAt(saves, k)
    /\ printed' = currentInvoice
    /\ lastSave' = Outcome(s, FALSE, counterFailed)
    /\ lastPreview' = <<>>
    /\ UNCHANGED << user, view, currentInvoice, editingInvoice, firmSubmits, created >>

\* the catch block of handleSaveInvoice (return false) and handlePrint's
\* `if (!saved) { setIsSaving(false); return; }` for call k
SaveReturnsFalse(k, s, counterFailed) ==
    /\ isSaving' = IF s.live THEN FALSE ELSE isSaving
    /\ saves' = RemoveAt(saves, k)
    /\ printed' = None
    /\ lastSave' = Outcome(s, FALSE, counterFailed)
    /\ lastPreview' = <<>>
    /\ UNCHANGED << user, view, currentInvoice, editingInvoice, firmSubmits, created >>

\* updateDoc(invoiceRef, ...) resolves
InvoiceUpdateSucceeds(k) ==
    /\ saves[k].pc = "update"
    /\ storeInvoices' = [storeInvoices EXCEPT ![Val(saves[k].inv.id)] =
                            FinalDataToSave(saves[k].inv)]
    /\ SaveReturnsTrue(k, saves[k])
    /\ UNCHANGED << firmDetails, storeFirm >>

\* addDoc(collection(db, 'invoices'), ...) resolves; in sequential mode the local
\* counter is set and the call goes on to await the update of the firm record
InvoiceCreateSucceedsWithin(k, maxInvoices) ==
    LET s == saves[k]
        savedId == Len(storeInvoices) + 1
        t == [s EXCEPT !.savedId = Some(savedId)]
    IN /\ s.pc = "create"
       /\ Len(storeInvoices) < maxInvoices       \* the store has room for the record
       /\ storeInvoices' = Append(storeInvoices, FinalDataToSave(s.inv))
       /\ IF IsSequential(s.firm)
          THEN LET newCurrentNumber == NextNumber(Val(FormatOf(s.firm)))
               IN /\ firmDetails' =
                       IF IsSet(firmDetails)
                       THEN Some([Val(firmDetails) EXCEPT !.invoiceFormat =
                                     WithCurrentNumber(@, newCurrentNumber)])
                       ELSE None
                  /\ saves' = [saves EXCEPT ![k] =
                                 [t EXCEPT !.pc = "counter",
                                           !.newCurrentNumber = Some(newCurrentNumber)]]
                  /\ created' = IF s.live /\ currentInvoice = Some(s.inv) THEN TRUE
                                ELSE created
                  /\ lastSave' = None /\ printed' = None /\ lastPreview' = <<>>
                  /\ UNCHANGED << user, view, currentInvoice, editingInvoice, isSaving,
                                  storeFirm, firmSubmits >>
          ELSE /\ SaveReturnsTrue(k, t)
               /\ UNCHANGED << firmDetails, storeFirm >>

InvoiceCreateSucceeds(k) == InvoiceCreateSucceedsWithin(k, MaxInvoices)

\* the awaited write of the invoice record (addDoc or updateDoc) rejects
InvoiceWriteFails(k) ==
    /\ saves[k].pc \in {"create", "update"}
    /\ SaveReturnsFalse(k, saves[k], FALSE)
    /\ UNCHANGED << firmDetails, storeInvoices, storeFirm >>

\* updateDoc(firmRef, {'invoiceFormat.currentNumber': n}) resolves
CounterUpdateSucceeds(k) ==
    /\ saves[k].pc = "counter"
    /\ IsSet(storeFirm)
    /\ storeFirm' = Some([Val(storeFirm) EXCEPT !.invoiceFormat =
                             WithCurrentNumber(@, Val(saves[k].newCurrentNumber))])
    /\ SaveReturnsTrue(k, saves[k])
    /\ UNCHANGED << firmDetails, storeInvoices >>

\* updateDoc(firmRef, ...) rejects: the rejection is caught by the same catch block
CounterUpdateFails(k) ==
    /\ saves[k].pc = "counter"
    /\ SaveReturnsFalse(k, saves[k], TRUE)
    /\ UNCHANGED << firmDetails, storeInvoices, storeFirm >>

-----------------------------------------------------------------------------
(* FirmSetup (settings view) *)

\* handleDisplaySettingTextChange for customInvoicePrefix
SanitizePrefix(value) == Substring0(ToUpperCase(StripNonAlnum(value)), 10)

\* what the user types into the custom prefix field
TypedPrefixes == { << "s", "-", "1" >> }

\* what the user types into the (required) business name field
TypedFirmNames == { << "S", "h", "r", "e", "e" >> }

\* handleSubmit up to `await setDoc(firmDocRef, firmDetails)`: the record is built
\* from the form fields and the display settings only
FirmSubmitStart(typedNames, typedPrefixes) ==
    /\ FirmSetupShown(view, currentInvoice) /\ IsSet(firmDetails) /\ IsSet(user)
    /\ \A k \in 1..Len(firmSubmits) : ~firmSubmits[k].live      \* disabled={loading}
    /\ Len(firmSubmits) < MaxFirmInFlight
    /\ \E firmName \in {Val(firmDetails).firmName} \cup typedNames,
          prefix \in {Val(firmDetails).customInvoicePrefix}
                       \cup {SanitizePrefix(t) : t \in typedPrefixes} :
         firmSubmits' = Append(firmSubmits,
            [ details |-> [ userId |-> Val(user), firmName |-> firmName,
                            customInvoicePrefix |-> prefix, invoiceFormat |-> None ],
              live |-> TRUE ])
    /\ lastSave' = None /\ printed' = None
    /\ UNCHANGED << user, view, currentInvoice, editingInvoice, firmDetails, isSaving,
                    storeInvoices, storeFirm, saves, created, lastPreview, firm0 >>

\* setDoc resolves: the stored record is replaced, then onComplete -> handleFirmUpdate
FirmSubmitSucceeds(k) ==
    /\ k \in 1..Len(firmSubmits)
    /\ storeFirm' = Some(firmSubmits[k].details)
    /\ firmDetails' = Some(firmSubmits[k].details)
    /\ view' = "form"
    /\ firmSubmits' = Orphan(RemoveAt(firmSubmits, k))
    /\ lastSave' = None /\ printed' = None
    /\ UNCHANGED << user, currentInvoice, editingInvoice, isSaving, storeInvoices,
                    saves, created, lastPreview, firm0 >>

\* setDoc rejects: setError, nothing else changes
FirmSubmitFails(k) ==
    /\ k \in 1..Len(firmSubmits)
    /\ firmSubmits' = RemoveAt(firmSubmits, k)
    /\ lastSave' = None /\ printed' = None
    /\ UNCHANGED << user, view, currentInvoice, editingInvoice, firmDetails, isSaving,
                    storeInvoices, storeFirm, saves, created, lastPreview, firm0 >>

-----------------------------------------------------------------------------
(* The billing session *)

Views == {"form", "history", "manage", "settings"}

\* the views of a billing session; master data has the manage view to itself
SessionViews == Views \ {"manage"}

\* Date.now() during a billing session
SessionTimes == {1}

Next ==
    \/ GenerateBill(SessionItemLists, SessionTimes) /\ UNCHANGED billingFrame
    \/ Back /\ UNCHANGED billingFrame
    \/ \E v \in SessionViews : SwitchView(v) /\ UNCHANGED billingFrame
    \/ \E i \in 1..Len(storeInvoices) : ViewInvoice(i) /\ UNCHANGED billingFrame
    \/ \E i \in 1..Len(storeInvoices) : EditInvoice(i) /\ UNCHANGED billingFrame
    \/ PrintSave /\ UNCHANGED billingFrame
    \/ PrintOnly /\ UNCHANGED billingFrame
    \/ \E k \in 1..Len(saves) : InvoiceUpdateSucceeds(k) /\ UNCHANGED billingFrame
    \/ \E k \in 1..Len(saves) : InvoiceCreateSucceeds(k) /\ UNCHANGED billingFrame
    \/ \E k \in 1..Len(saves) : InvoiceWriteFails(k) /\ UNCHANGED billingFrame
    \/ \E k \in 1..Len(saves) : CounterUpdateSucceeds(k) /\ UNCHANGED billingFrame
    \/ \E k \in 1..Len(saves) : CounterUpdateFails(k) /\ UNCHANGED billingFrame
    \/ FirmSubmitStart({}, {}) /\ UNCHANGED masterVars
    \/ \E k \in 1..Len(firmSubmits) : FirmSubmitSucceeds(k) /\ UNCHANGED masterVars
    \/ \E k \in 1..Len(firmSubmits) : FirmSubmitFails(k) /\ UNCHANGED masterVars

Spec == Init /\ [][Next]_vars

-----------------------------------------------------------------------------
(* The bill calculator over all small item lists *)

\* prices in paise, quantities and rates of the line items fed to the calculator
CalcPrices == {0, 50, 100}
CalcQuantities == {1, 2}
CalcRates == {None, Some(0), Some(5), Some(18), Some(100)}

CalcProduct(price) == [ id |-> 3, name |-> "item", price |-> price, docId |-> None ]

CalcItems ==
    { BillItem(CalcProduct(price), quantity, gstRate) :
        price \in CalcPrices, quantity \in CalcQuantities, gstRate \in CalcRates }

\* every ordered list of at most MaxItems line items, and the documented scenario
CalcItemLists == UNION { [1..n -> CalcItems] : n \in 0..MaxItems } \cup {ScenarioItems}

NextCalc ==
    \/ GenerateBill(CalcItemLists, SessionTimes) /\ UNCHANGED billingFrame
    \/ Back /\ UNCHANGED billingFrame

SpecCalc == Init /\ [][NextCalc]_vars

\* the sum of G over the items of a list, taken from the last item backwards
RECURSIVE Sigma(_, _)
Sigma(G(_), items) ==
    IF Len(items) = 0 THEN 0
    ELSE G(items[Len(items)]) + Sigma(G, SubSeq(items, 1, Len(items) - 1))

\* price * quantity of a line, in paise
LineAmount(item) == item.product.price * item.quantity

\* price * quantity * rate of a line that carries a rate: 100 times its tax in paise
LineAmountTimesRate(item) == item.product.price * item.quantity * item.gstRate[1]

\* the rate a line is taxed at: its own when it has one, else the default
EffectiveRate(item) ==
    IF item.gstRate = <<>> THEN GST_RATE_PERCENT ELSE item.gstRate[1]

LineAmountTimesEffectiveRate(item) == LineAmount(item) * EffectiveRate(item)

AllRated(items) == \A k \in 1..Len(items) : items[k].gstRate # <<>>

\* C4: the totals of a generated bill are the plain sums over its items: subtotal
\* is the sum of price*quantity, gstAmount the sum of price*quantity*rate/100
\* (for items carrying a rate), grandTotal their sum, nothing is rounded on the
\* way (amounts are compared in 1/Scale paise), and the empty list gives 0, 0, 0
C4_TotalsAreSums ==
    IsSet(currentInvoice) =>
        LET inv == Val(currentInvoice)
        IN /\ inv.subtotal = Scale * Sigma(LineAmount, inv.items)
           /\ AllRated(inv.items) =>
                100 * inv.gstAmount = Scale * Sigma(LineAmountTimesRate, inv.items)
           /\ inv.grandTotal = inv.subtotal + inv.gstAmount
           /\ inv.items = <<>> =>
                inv.subtotal = 0 /\ inv.gstAmount = 0 /\ inv.grandTotal = 0
           /\ inv.items = ScenarioItems =>
                /\ inv.subtotal = 250 * Scale
                /\ inv.gstAmount = 19 * Scale
                /\ inv.grandTotal = 269 * Scale

\* the bill of the scenario (two lines, 250 + 19 = 269) has been generated
C4_Witness ==
    /\ IsSet(currentInvoice)
    /\ Val(currentInvoice).items = ScenarioItems
    /\ Val(currentInvoice).subtotal = 250 * Scale
    /\ Val(currentInvoice).grandTotal = 269 * Scale

\* C5: every line is taxed at its own rate when it carries one, an explicit 0
\* included (such a line adds no tax), and at the default rate only when it
\* carries none
C5_OwnRateElseDefault ==
    IsSet(currentInvoice) =>
        LET inv == Val(currentInvoice)
        IN /\ 100 * inv.gstAmount =
                Scale * Sigma(LineAmountTimesEffectiveRate, inv.items)
           /\ (\A k \in 1..Len(inv.items) : inv.items[k].gstRate = Some(0))
                => inv.gstAmount = 0
           /\ (Len(inv.items) = 1 /\ inv.items[1].gstRate = None)
                => 100 * inv.gstAmount =
                     inv.subtotal * GST_RATE_PERCENT

\* a bill with a zero-rated line of 200 paise and an unrated line of 100 paise:
\* only the unrated line is taxed, at the default rate
C5_Witness ==
    /\ IsSet(currentInvoice)
    /\ Len(Val(currentInvoice).items) = 2
    /\ Val(currentInvoice).items[1].gstRate = Some(0)
    /\ Val(currentInvoice).items[1].product.price = 100
    /\ Val(currentInvoice).items[1].quantity = 2
    /\ Val(currentInvoice).items[2].gstRate = None
    /\ Val(currentInvoice).items[2].product.price = 100
    /\ Val(currentInvoice).items[2].quantity = 1
    /\ 100 * Val(currentInvoice).gstAmount = 100 * GST_RATE_PERCENT * Scale

-----------------------------------------------------------------------------
(* The invoice number generator over the numbering configurations *)

NumberTypes == {"sequential", "freeform"}
NumberStarts == {None, Some(0), Some(1), Some(3)}
NumberCurrents == {None, Some(0), Some(7)}
NumberPrefixes == { <<>>, << "A", "B", "C" >> }

NumberFirms ==
    { Firm(ShreeOilMill, prefix, Some(InvoiceFormat(type, startNumber, currentNumber))) :
        prefix \in NumberPrefixes, type \in NumberTypes,
        startNumber \in NumberStarts, currentNumber \in NumberCurrents }

InitNumber == InitSession(NumberFirms)

NextNumberGen ==
    \/ GenerateBill(SessionItemLists, Times) /\ UNCHANGED billingFrame
    \/ Back /\ UNCHANGED billingFrame

SpecNumber == InitNumber /\ [][NextNumberGen]_vars

\* '<prefix>-<n>' when a custom prefix is configured, the bare '<n>' otherwise
Rendered(prefix, n) ==
    IF prefix = <<>> THEN ToString(n) ELSE Join(prefix) \o "-" \o ToString(n)

\* (currentNumber if set, otherwise startNumber - 1) + 1
DocumentedNext(format) ==
    (IF format.currentNumber # <<>> THEN format.currentNumber[1]
     ELSE format.startNumber[1] - 1) + 1

\* C6: a new invoice previewed in sequential mode, with a configured start
\* number >= 0 and any current number, set or unset, is numbered
\* (currentNumber if set, otherwise startNumber - 1) + 1, behind the custom
\* prefix and a dash when a prefix is configured
C6_SequentialNextNumber ==
    ( /\ IsSet(currentInvoice)
      /\ ~IsSet(editingInvoice)
      /\ ~IsSet(Val(currentInvoice).id)
      /\ firm0.invoiceFormat # <<>>
      /\ firm0.invoiceFormat[1].type = "sequential"
      /\ firm0.invoiceFormat[1].startNumber # <<>> )
    => Val(currentInvoice).invoiceNumber =
         Rendered(firm0.customInvoicePrefix, DocumentedNext(firm0.invoiceFormat[1]))

\* a step of the generator: a preview appears in the form view
GenerateStep == ~IsSet(currentInvoice) /\ IsSet(currentInvoice') /\ view' = "form"

\* C7: generating a preview leaves the local firm details, the invoice records
\* and the stored firm record as they were, and the sequential numbers
\* previewed since the last save are all the same number
C7_GenerateIsReadOnly ==
    [][ /\ GenerateStep =>
            /\ firmDetails' = firmDetails
            /\ storeInvoices' = storeInvoices
            /\ storeFirm' = storeFirm
        /\ \A i, j \in 1..Len(lastPreview') : lastPreview'[i] = lastPreview'[j] ]_vars

\* a sequential preview has been generated again after going back, with no
\* save in between, while the counter is where the session found it
C7_Witness ==
    /\ IsSet(currentInvoice) /\ ~IsSet(Val(currentInvoice).id)
    /\ ~IsSet(editingInvoice)
    /\ IsSequential(firmDetails)
    /\ Len(lastPreview) = 2
    /\ lastPreview[2] = Val(currentInvoice).invoiceNumber
    /\ saves = <<>>
    /\ firmDetails = Some(firm0) /\ storeFirm = Some(firm0)
    /\ Len(storeInvoices) = 1

-----------------------------------------------------------------------------
(* Editing and resaving *)

\* no step changes the invoice number of a record of the store
NumbersKept ==
    \A i \in 1..Len(storeInvoices) :
        storeInvoices'[i].invoiceNumber = storeInvoices[i].invoiceNumber

\* the preview generated during an edit, the update issued for it and the
\* invoice shown after the update all carry the id and number of the record
EditKeepsIdentity ==
    /\ (IsSet(editingInvoice) /\ IsSet(currentInvoice) /\ view = "form") =>
          /\ Val(currentInvoice).id = Val(editingInvoice).id
          /\ Val(currentInvoice).invoiceNumber = Val(editingInvoice).invoiceNumber
    /\ IsSet(editingInvoice) =>
          /\ Val(editingInvoice).id # <<>>
          /\ Val(editingInvoice).id[1] \in 1..Len(storeInvoices)
          /\ storeInvoices[Val(editingInvoice).id[1]].invoiceNumber =
                Val(editingInvoice).invoiceNumber
    /\ \A k \in 1..Len(saves) :
          saves[k].pc = "update" =>
             /\ saves[k].inv.id # <<>>
             /\ saves[k].inv.id[1] \in 1..Len(storeInvoices)
             /\ storeInvoices[saves[k].inv.id[1]].invoiceNumber =
                   saves[k].inv.invoiceNumber
    /\ (IsSet(lastSave) /\ Val(lastSave).result /\ Val(lastSave).inv.id # <<>>) =>
          LET inv == Val(lastSave).inv
          IN /\ currentInvoice = Some(inv)
             /\ storeInvoices[inv.id[1]].invoiceNumber = inv.invoiceNumber
             /\ storeInvoices[inv.id[1]].items = inv.items

\* C1: in either numbering mode, editing a persisted invoice, generating it
\* again and saving updates the record with the same id and writes the same
\* invoice number: no record ever changes its number, and the edit's preview,
\* its update and the invoice shown afterwards keep the record's id and number
C1_EditKeepsIdAndNumber == [][ NumbersKept /\ EditKeepsIdentity' ]_vars

\* the earlier invoice was edited in sequential mode, regenerated with the
\* session's items and saved: record 1 has the new items and its old number
C1_Witness ==
    /\ IsSequential(firmDetails)
    /\ IsSet(lastSave) /\ Val(lastSave).result
    /\ Val(lastSave).inv.id = Some(1)
    /\ Val(lastSave).inv.items \in SessionItemLists
    /\ storeInvoices[1].items # EarlierInvoice.items
    /\ storeInvoices[1].invoiceNumber = EarlierInvoice.invoiceNumber
    /\ currentInvoice = Some(Val(lastSave).inv)

-----------------------------------------------------------------------------
(* Who changes the numbering configuration *)

\* a step of a save that has created a record: the create itself, or the end of
\* its update of the stored counter
CreateSaveStep ==
    \/ Len(storeInvoices') = Len(storeInvoices) + 1
    \/ \E k \in 1..Len(saves) :
          saves[k].pc = "counter" /\ saves' = RemoveAt(saves, k)

\* C3: the numbering configuration of the firm, its currentNumber included,
\* changes in local state or in the stored firm record only in a step of a save
\* that created a new invoice record; saves that update an invoice and
\* submissions of the firm settings leave it as it was
C3_NumberingChangesOnlyOnCreate ==
    [][ ( \/ FormatOf(firmDetails') # FormatOf(firmDetails)
          \/ FormatOf(storeFirm') # FormatOf(storeFirm) )
        => CreateSaveStep ]_vars

-----------------------------------------------------------------------------
(* Failures during a save *)

\* C8: a create-save whose record reached the store and whose update of the
\* stored counter then failed reports success, and the current invoice carries
\* the id the store assigned
C8_CounterFailureIsNotFatal ==
    (IsSet(lastSave) /\ Val(lastSave).created /\ Val(lastSave).counterFailed) =>
        /\ Val(lastSave).result = TRUE
        /\ currentInvoice = Some([Val(lastSave).inv EXCEPT !.id = Val(lastSave).savedId])

\* C9: a save that reports failure has left no new invoice record in the store
\* and has left the local currentNumber at its value before the save
C9_FailureChangesNothing ==
    (IsSet(lastSave) /\ Val(lastSave).result = FALSE) =>
        /\ ~Val(lastSave).created
        /\ CurrentNumberOf(firmDetails) = CurrentNumberOf(Val(lastSave).firmBefore)

\* C10: a create is issued only for an invoice without an id, and never for a
\* displayed preview for which a create has already reached the store
C10_OneCreatePerPreview ==
    \A k \in 1..Len(saves) :
        saves[k].pc = "create" =>
           /\ saves[k].inv.id = <<>>
           /\ ~(created /\ saves[k].live /\ currentInvoice = Some(saves[k].inv))

-----------------------------------------------------------------------------
(* Consecutive saves in sequential mode, no store failure *)

SerialFirms ==
    { Firm(ShreeOilMill, <<>>, Some(InvoiceFormat("sequential", Some(0), None))),
      Firm(ShreeOilMill, <<>>, Some(InvoiceFormat("sequential", Some(3), None))),
      Firm(ShreeOilMill, << "A", "B", "C" >>,
           Some(InvoiceFormat("sequential", Some(1), Some(7)))) }

InitSerial == InitSession(SerialFirms)

\* every save completes before the next bill is generated
NextSerial ==
    \/ saves = <<>> /\ GenerateBill(SessionItemLists, SessionTimes) /\ UNCHANGED billingFrame
    \/ Back /\ UNCHANGED billingFrame
    \/ \E v \in SessionViews : SwitchView(v) /\ UNCHANGED billingFrame
    \/ \E i \in 1..Len(storeInvoices) : ViewInvoice(i) /\ UNCHANGED billingFrame
    \/ \E i \in 1..Len(storeInvoices) : EditInvoice(i) /\ UNCHANGED billingFrame
    \/ PrintSave /\ UNCHANGED billingFrame
    \/ PrintOnly /\ UNCHANGED billingFrame
    \/ \E k \in 1..Len(saves) : InvoiceUpdateSucceeds(k) /\ UNCHANGED billingFrame
    \/ \E k \in 1..Len(saves) : InvoiceCreateSucceeds(k) /\ UNCHANGED billingFrame
    \/ \E k \in 1..Len(saves) : CounterUpdateSucceeds(k) /\ UNCHANGED billingFrame

SpecSerial == InitSerial /\ [][NextSerial]_vars

\* the first number of the session: the configured start number when nothing
\* has been numbered before, else the number after the current one
SerialStart ==
    IF firm0.invoiceFormat[1].currentNumber # <<>>
    THEN firm0.invoiceFormat[1].currentNumber[1] + 1
    ELSE firm0.invoiceFormat[1].startNumber[1]

\* C2: the N invoices created so far in the session carry the numbers start,
\* start+1, ..., start+N-1 in save order, and once the saves have completed the
\* currentNumber, local and stored, is start+N-1, N more than before the session
C2_ConsecutiveNumbers ==
    LET n == Len(storeInvoices) - 1
    IN /\ \A i \in 1..n :
             storeInvoices[i + 1].invoiceNumber =
                Rendered(firm0.customInvoicePrefix, SerialStart + i - 1)
       /\ (saves = <<>> /\ n > 0) =>
             /\ CurrentNumberOf(storeFirm) = Some(SerialStart + n - 1)
             /\ CurrentNumberOf(firmDetails) = Some(SerialStart + n - 1)

-----------------------------------------------------------------------------
(* Saves that overlap: the user does not wait for the store *)

OverlapFirms ==
    { Firm(ShreeOilMill, << "A", "B", "C" >>,
           Some(InvoiceFormat("sequential", Some(1), Some(7)))) }

InitOverlap == InitSession(OverlapFirms)

\* the billing session without the settings view, one more call in flight
NextOverlap ==
    \/ GenerateBill(SessionItemLists, SessionTimes) /\ UNCHANGED billingFrame
    \/ Back /\ UNCHANGED billingFrame
    \/ \E v \in {"form", "history"} : SwitchView(v) /\ UNCHANGED billingFrame
    \/ \E i \in 1..Len(storeInvoices) : ViewInvoice(i) /\ UNCHANGED billingFrame
    \/ \E i \in 1..Len(storeInvoices) : EditInvoice(i) /\ UNCHANGED billingFrame
    \/ handlePrintSave(MaxInFlight + 1) /\ UNCHANGED billingFrame
    \/ PrintOnly /\ UNCHANGED billingFrame
    \/ \E k \in 1..Len(saves) : InvoiceUpdateSucceeds(k) /\ UNCHANGED billingFrame
    \/ \E k \in 1..Len(saves) : InvoiceCreateSucceeds(k) /\ UNCHANGED billingFrame
    \/ \E k \in 1..Len(saves) : InvoiceWriteFails(k) /\ UNCHANGED billingFrame
    \/ \E k \in 1..Len(saves) : CounterUpdateSucceeds(k) /\ UNCHANGED billingFrame
    \/ \E k \in 1..Len(saves) : CounterUpdateFails(k) /\ UNCHANGED billingFrame

SpecOverlap == InitOverlap /\ [][NextOverlap]_vars

\* a save started from the invoice view that is shown is awaiting the store
LiveSaveInFlight == \E k \in 1..Len(saves) : saves[k].live

\* C11: while a save started from the invoice view that is shown has neither
\* resolved nor failed, the view's flag isSaving is up, at most one such save
\* exists, and no step starts another store call or prints, except the print
\* that follows the completion of a save
C11_NoSecondSaveWhileSaving ==
    [][ /\ LiveSaveInFlight' =>
            /\ isSaving'
            /\ Cardinality({k \in 1..Len(saves') : saves'[k].live}) = 1
        /\ LiveSaveInFlight =>
            /\ Len(saves') <= Len(saves)
            /\ IsSet(printed') => Len(saves') < Len(saves) ]_vars

\* a save of the shown preview is awaiting the store while the call of a
\* preview the user left earlier is still awaiting it too
C11_Witness ==
    /\ Len(saves) = 2
    /\ ~saves[1].live /\ saves[2].live
    /\ isSaving
    /\ IsSet(currentInvoice) /\ saves[2].inv = Val(currentInvoice)

\* a call of handleSaveInvoice for a new invoice
NewInvoiceSave(s) == s.inv.id = <<>>

\* C12: no save of a new invoice starts while an earlier save is awaiting the
\* store (calls are queued in the order they started, so only the oldest call
\* in flight may be one that found the store idle), and no two saves of new
\* invoices in flight compute their increment from the same counter value
C12_SavesAreSerialized ==
    /\ \A k \in 2..Len(saves) : ~NewInvoiceSave(saves[k])
    /\ \A j, k \in 1..Len(saves) :
          (j < k /\ NewInvoiceSave(saves[j]) /\ NewInvoiceSave(saves[k])
             /\ IsSequential(saves[j].firm) /\ IsSequential(saves[k].firm))
          => CurrentNumberOf(saves[j].firm) # CurrentNumberOf(saves[k].firm)

-----------------------------------------------------------------------------
(* Sign-out and sign-in of another owner in the same page session *)

\* the firm record of the second owner; no action of this session writes it
SecondOwnerFirm ==
    [ userId |-> "u2", firmName |-> << "O", "i", "l" >>, customInvoicePrefix |-> <<>>,
      invoiceFormat |-> Some(InvoiceFormat("freeform", None, None)) ]

\* the firm document firmDetails/<uid>: storeFirm is the first owner's
FirmDocOf(uid) == IF uid = "u1" THEN storeFirm ELSE Some(SecondOwnerFirm)

Owners == {"u1", "u2"}

\* localeCompare on the customer names of the model
NameRank(name) == CASE name = "asha" -> 1 [] name = "bina" -> 2 [] OTHER -> 3

\* Array.prototype.sort is stable: c goes behind the entries that do not compare greater
RECURSIVE InsertByName(_, _)
InsertByName(sorted, c) ==
    IF sorted = <<>> THEN << c >>
    ELSE IF NameRank(Head(sorted).name) <= NameRank(c.name)
         THEN << Head(sorted) >> \o InsertByName(Tail(sorted), c)
         ELSE << c >> \o sorted

\* list.sort((a, b) => a.name.localeCompare(b.name))
RECURSIVE SortByName(_)
SortByName(list) ==
    IF list = <<>> THEN <<>>
    ELSE InsertByName(SortByName(SubSeq(list, 1, Len(list) - 1)), list[Len(list)])

\* orderBy('id', 'asc') of the products query
RECURSIVE InsertById(_, _)
InsertById(sorted, p) ==
    IF sorted = <<>> THEN << p >>
    ELSE IF Head(sorted).id <= p.id
         THEN << Head(sorted) >> \o InsertById(Tail(sorted), p)
         ELSE << p >> \o sorted

RECURSIVE SortById(_)
SortById(list) ==
    IF list = <<>> THEN <<>>
    ELSE InsertById(SortById(SubSeq(list, 1, Len(list) - 1)), list[Len(list)])

\* the documents of a collection that belong to uid, in document order
RECURSIVE DocsOf(_, _, _)
DocsOf(docs, uid, d) ==
    IF d > Len(docs) THEN <<>>
    ELSE IF IsSet(docs[d]) /\ Val(docs[d]).userId = uid
         THEN << d >> \o DocsOf(docs, uid, d + 1)
         ELSE DocsOf(docs, uid, d + 1)

\* loadData: the owner's products, ordered by id
LoadedProducts(uid) ==
    LET ds == DocsOf(storeProducts, uid, 1)
    IN SortById([n \in 1..Len(ds) |->
                    [ id |-> Val(storeProducts[ds[n]]).id,
                      name |-> Val(storeProducts[ds[n]]).name,
                      price |-> Val(storeProducts[ds[n]]).price,
                      docId |-> Some(ds[n]) ]])

\* loadData: the owner's customers, sorted by name in memory
LoadedCustomers(uid) ==
    LET ds == DocsOf(storeCustomers, uid, 1)
    IN SortByName([n \in 1..Len(ds) |->
                      [ id |-> ds[n],
                        name |-> Val(storeCustomers[ds[n]]).name,
                        phone |-> Val(storeCustomers[ds[n]]).phone,
                        userId |-> Val(storeCustomers[ds[n]]).userId ]])

\* handleLogout: signOut, then the onAuthStateChanged callback with user = null
Logout ==
    /\ IsSet(user)
    /\ user' = None
    /\ firmDetails' = None
    /\ view' = "form"
    /\ currentInvoice' = None
    /\ isSaving' = FALSE
    /\ saves' = Orphan(saves)
    /\ firmSubmits' = Orphan(firmSubmits)
    /\ created' = FALSE
    /\ lastSave' = None /\ printed' = None /\ lastPreview' = <<>>
    /\ products' = <<>> /\ customers' = <<>>        \* loadData without a user
    /\ UNCHANGED << editingInvoice, storeInvoices, storeFirm >>

\* sign-in on the Auth screen, then the onAuthStateChanged callback with the
\* user: the firm document is loaded behind the loading screen, then the view
\* and the current invoice are reset
Login(uid) ==
    /\ ~IsSet(user)
    /\ user' = Some(uid)
    /\ firmDetails' = FirmDocOf(uid)
    /\ view' = "form"
    /\ currentInvoice' = None
    /\ isSaving' = FALSE
    /\ saves' = Orphan(saves)
    /\ firmSubmits' = Orphan(firmSubmits)
    /\ created' = FALSE
    /\ lastSave' = None /\ printed' = None /\ lastPreview' = <<>>
    /\ products' = LoadedProducts(uid) /\ customers' = LoadedCustomers(uid)
    /\ UNCHANGED << editingInvoice, storeInvoices, storeFirm >>

\* the records the history list shows: those of the signed-in owner
OwnInvoices ==
    { i \in 1..Len(storeInvoices) : IsSet(user) /\ storeInvoices[i].userId = Val(user) }

NextAuth ==
    \/ GenerateBill(SessionItemLists, SessionTimes) /\ UNCHANGED billingFrame
    \/ Back /\ UNCHANGED billingFrame
    \/ \E v \in {"form", "history"} : SwitchView(v) /\ UNCHANGED billingFrame
    \/ \E i \in OwnInvoices : ViewInvoice(i) /\ UNCHANGED billingFrame
    \/ \E i \in OwnInvoices : EditInvoice(i) /\ UNCHANGED billingFrame
    \/ PrintSave /\ UNCHANGED billingFrame
    \/ PrintOnly /\ UNCHANGED billingFrame
    \/ \E k \in 1..Len(saves) : InvoiceUpdateSucceeds(k) /\ UNCHANGED billingFrame
    \/ \E k \in 1..Len(saves) : InvoiceCreateSucceeds(k) /\ UNCHANGED billingFrame
    \/ \E k \in 1..Len(saves) : InvoiceWriteFails(k) /\ UNCHANGED billingFrame
    \/ \E k \in 1..Len(saves) : CounterUpdateSucceeds(k) /\ UNCHANGED billingFrame
    \/ \E k \in 1..Len(saves) : CounterUpdateFails(k) /\ UNCHANGED billingFrame
    \/ Logout /\ UNCHANGED storeFrame
    \/ \E uid \in Owners : Login(uid) /\ UNCHANGED storeFrame

SpecAuth == InitOverlap /\ [][NextAuth]_vars

\* C13: every invoice create or update sent to the store carries the userId of
\* the owner signed in at that moment, and every update targets a record that
\* belongs to that owner
C13_WritesAreOwnerScoped ==
    [][ Len(saves') = Len(saves) + 1 =>
          LET sent == saves'[Len(saves')]
          IN /\ IsSet(user)
             /\ sent.inv.userId = Val(user)
             /\ sent.pc = "update" =>
                  storeInvoices[sent.inv.id[1]].userId = Val(user) ]_vars

-----------------------------------------------------------------------------
(* The prefix derived from the firm name, and the freeform number *)

\* all texts of at most n characters over an alphabet
RECURSIVE TextsUpTo(_, _)
TextsUpTo(alphabet, n) ==
    IF n = 0 THEN { <<>> }
    ELSE LET shorter == TextsUpTo(alphabet, n - 1)
         IN shorter \cup { Append(t, c) : t \in shorter, c \in alphabet }

\* firm names: every text of at most MaxNameLen characters over a letter, a
\* blank and a hyphen, every text of at most 3 characters over five
\* characters, and names of one to six words
PrefixNames ==
    TextsUpTo({"s", " ", "-"}, MaxNameLen)
    \cup TextsUpTo({"s", "O", "7", " ", "&"}, 3)
    \cup { << "S", "h", "r", "e", "e" >>,
           << "S", "h", "r", "e", "e", " ", "O", "i", "l" >>,
           ShreeOilMill,
           << "O", "i", "l", " ", "&", " ", "M", "i", "l", "l" >>,
           << "a", " ", "b", " ", "h", " ", "i", " ", "l", " ", "m" >>,
           << " ", "7", "s", " ", " ", "O", "1", " " >> }

\* freeform firms: the name is what matters; the custom prefix is set or not,
\* the numbering format is freeform or missing
PrefixFirms ==
    { Firm(name, prefix, format) :
        name \in PrefixNames,
        prefix \in { <<>>, << "A", "B", "C" >> },
        format \in { None, Some(InvoiceFormat("freeform", None, None)) } }

InitPrefix == InitSession(PrefixFirms)

NextPrefix ==
    \/ GenerateBill(SessionItemLists, Times) /\ UNCHANGED billingFrame
    \/ Back /\ UNCHANGED billingFrame

SpecPrefix == InitPrefix /\ [][NextPrefix]_vars

\* the words of a name: its maximal runs of characters other than the blank
RECURSIVE WordsOf(_)
WordsOf(name) ==
    IF name = <<>> THEN <<>>
    ELSE IF name[1] = " " THEN WordsOf(SubSeq(name, 2, Len(name)))
    ELSE LET end == CHOOSE i \in 1..Len(name) :
                       /\ \A j \in 1..i : name[j] # " "
                       /\ i = Len(name) \/ name[i + 1] = " "
         IN << SubSeq(name, 1, end) >> \o WordsOf(SubSeq(name, end + 1, Len(name)))

\* a word without its non-alphanumeric characters, in upper case
Cleaned(word) ==
    LET kept == SelectSeq(word, LAMBDA c : c \in LowerCase \cup UpperCase \cup Digit)
    IN [i \in 1..Len(kept) |-> IF kept[i] \in LowerCase THEN Upper[kept[i]] ELSE kept[i]]

FirstChars(text, n) == SubSeq(text, 1, IF Len(text) < n THEN Len(text) ELSE n)

RECURSIVE FirstLetters(_)
FirstLetters(words) ==
    IF words = <<>> THEN <<>>
    ELSE FirstChars(Cleaned(words[1]), 1) \o FirstLetters(SubSeq(words, 2, Len(words)))

\* the word-count rule
RulePrefix(name) ==
    LET words == WordsOf(name)
    IN IF Len(words) = 1 THEN FirstChars(Cleaned(words[1]), 4)
       ELSE IF Len(words) = 2
       THEN FirstChars(Cleaned(words[1]), 2) \o FirstChars(Cleaned(words[2]), 2)
       ELSE FirstLetters(FirstChars(words, 5))

\* a new invoice of a freeform firm without custom prefix is shown
DerivedPrefixShown ==
    /\ IsSet(currentInvoice) /\ ~IsSet(editingInvoice)
    /\ firm0.customInvoicePrefix = <<>>

\* the number shown is the given text, a dash and a time
NumberShownIs(text) ==
    \E now \in Times : Val(currentInvoice).invoiceNumber = text \o "-" \o ToString(now)

\* C14: the prefix derived from a firm name follows the word-count rule on the
\* words stripped of non-alphanumerics and uppercased: one word gives its first
\* 4 characters, two words the first 2 characters of each, three or more words
\* the first character of each of the first 5 words; Shree gives SHRE, Shree Oil
\* gives SHOI, Shree Oil Mill gives SOM
C14_PrefixFollowsWordCountRule ==
    DerivedPrefixShown =>
       /\ RulePrefix(firm0.firmName) # <<>> =>
            /\ generateInvoicePrefix(firm0.firmName) = RulePrefix(firm0.firmName)
            /\ NumberShownIs(Join(RulePrefix(firm0.firmName)))
       /\ firm0.firmName = << "S", "h", "r", "e", "e" >> => NumberShownIs("SHRE")
       /\ firm0.firmName = << "S", "h", "r", "e", "e", " ", "O", "i", "l" >>
            => NumberShownIs("SHOI")
       /\ firm0.firmName = ShreeOilMill => NumberShownIs("SOM")

\* a bill of the firm named with six one-letter words: the prefix is made of
\* the first five
C14_Witness ==
    /\ DerivedPrefixShown
    /\ firm0.firmName = << "a", " ", "b", " ", "h", " ", "i", " ", "l", " ", "m" >>
    /\ Val(currentInvoice).invoiceNumber = "ABHIL-1"

\* C15: for every firm name, missing, empty, blank or without any alphanumeric
\* character included, the derived prefix is not empty, is made of uppercase
\* letters and digits only, has at most 5 characters, and is INV whenever the
\* word-count rule gives nothing
C15_PrefixIsWellFormed ==
    DerivedPrefixShown =>
       LET prefix == generateInvoicePrefix(firm0.firmName)
       IN /\ prefix # <<>>
          /\ \A i \in 1..Len(prefix) : prefix[i] \in UpperCase \cup Digit
          /\ Len(prefix) <= 5
          /\ RulePrefix(firm0.firmName) = <<>> => prefix = << "I", "N", "V" >>
          /\ NumberShownIs(Join(prefix))

\* a bill of a firm whose name is two words without any letter or digit
C15_Witness ==
    /\ DerivedPrefixShown
    /\ firm0.firmName = << "-", " ", "-", "-" >>
    /\ Val(currentInvoice).invoiceNumber = "INV-1"

\* C16: a new invoice in freeform mode is numbered '<prefix>-<time in
\* milliseconds>', the prefix being the custom prefix whenever one is set and
\* the prefix derived from the firm name otherwise
C16_FreeformNumber ==
    (IsSet(currentInvoice) /\ ~IsSet(editingInvoice)) =>
        IF firm0.customInvoicePrefix # <<>>
        THEN NumberShownIs(Join(firm0.customInvoicePrefix))
        ELSE NumberShownIs(Join(generateInvoicePrefix(firm0.firmName)))

\* a bill generated at time 2 by the firm Shree Oil Mill, whose custom prefix
\* ABC is used instead of the derived SOM
C16_Witness ==
    /\ IsSet(currentInvoice) /\ ~IsSet(editingInvoice)
    /\ firm0.firmName = ShreeOilMill
    /\ firm0.customInvoicePrefix = << "A", "B", "C" >>
    /\ Val(currentInvoice).invoiceNumber = "ABC-2"

-----------------------------------------------------------------------------
(* Master data: products (App.handleAddProduct / DeleteProduct / UpdateProduct) *)

sessionVars == << user, view, currentInvoice, editingInvoice, firmDetails, isSaving,
                  storeInvoices, storeFirm, saves, firmSubmits, created, lastSave,
                  lastPreview, printed, firm0 >>

\* App render: <MasterData/> is mounted in the manage view
MasterShown ==
    view = "manage" /\ ~IsSet(currentInvoice) /\ IsSet(user) /\ IsSet(firmDetails)

\* products.reduce((m, p) => Math.max(m, p.id), 0)
RECURSIVE MaxId(_, _)
MaxId(m, list) ==
    IF list = <<>> THEN m
    ELSE MaxId(IF Head(list).id > m THEN Head(list).id ELSE m, Tail(list))

\* products.find(p => p.id === id && p.docId)?.docId
RECURSIVE FindDocId(_, _)
FindDocId(list, id) ==
    IF list = <<>> THEN None
    ELSE IF Head(list).id = id /\ IsSet(Head(list).docId) THEN Head(list).docId
    ELSE FindDocId(Tail(list), id)

\* the document a delete or an update of product p goes to, if any
TargetDoc(p) == IF IsSet(p.docId) THEN p.docId ELSE FindDocId(products, p.id)

\* prev.filter(p => p.id !== id)
WithoutId(list, id) == SelectSeq(list, LAMBDA p : p.id # id)

\* prev.map(p => p.id === id ? { ...p, name, price } : p)
Repriced(list, id, name, price) ==
    [i \in 1..Len(list) |->
        IF list[i].id = id THEN [list[i] EXCEPT !.name = name, !.price = price]
        ELSE list[i]]

MasterCall(op, id, docId, name, price) ==
    [ op |-> op, id |-> id, docId |-> docId, name |-> name, price |-> price,
      uid |-> Val(user) ]

MasterReturn(ok) == Some(IF ok THEN "done" ELSE "failed")

\* a form handler returned early with an error message, before any handler of App
MasterRejected == Some("rejected")

\* handleAddProduct up to `await addFirestoreDoc`
AddProductStart(name, price) ==
    /\ MasterShown
    /\ masterCalls' = Append(masterCalls,
          MasterCall("addProduct", MaxId(0, products) + 1, None, name, price))
    /\ lastMaster' = None
    /\ UNCHANGED << products, customers, storeProducts, storeCustomers, sessionVars >>

\* addFirestoreDoc resolves: setProducts(prev => [...prev, newProd])
AddProductSucceeds(k) ==
    LET call == masterCalls[k]
        docId == Len(storeProducts) + 1
    IN /\ call.op = "addProduct"
       /\ storeProducts' = Append(storeProducts,
             Some([ id |-> call.id, name |-> call.name, price |-> call.price,
                    userId |-> call.uid ]))
       /\ products' = Append(products,
             [ id |-> call.id, name |-> call.name, price |-> call.price,
               docId |-> Some(docId) ])
       /\ masterCalls' = RemoveAt(masterCalls, k)
       /\ lastMaster' = MasterReturn(TRUE)
       /\ UNCHANGED << customers, storeCustomers, sessionVars >>

\* a handleDeleteProduct that removes the product from the list before the store answers
DeleteProductStartOptimistic(i) ==
    /\ MasterShown
    /\ i \in 1..Len(products)
    /\ masterCalls' = Append(masterCalls,
          MasterCall("deleteProduct", products[i].id, TargetDoc(products[i]), "", 0))
    /\ products' = WithoutId(products, products[i].id)
    /\ lastMaster' = None
    /\ UNCHANGED << customers, storeProducts, storeCustomers, sessionVars >>

\* handleDeleteProduct up to `await deleteDoc`; without a document to delete the
\* handler goes straight to setProducts
DeleteProductStart(i) ==
    /\ MasterShown
    /\ i \in 1..Len(products)
    /\ IF IsSet(TargetDoc(products[i]))
       THEN /\ masterCalls' = Append(masterCalls,
                  MasterCall("deleteProduct", products[i].id, TargetDoc(products[i]),
                             "", 0))
            /\ lastMaster' = None
            /\ UNCHANGED products
       ELSE /\ products' = WithoutId(products, products[i].id)
            /\ lastMaster' = MasterReturn(TRUE)
            /\ UNCHANGED masterCalls
    /\ UNCHANGED << customers, storeProducts, storeCustomers, sessionVars >>

\* deleteDoc resolves (also for a document that is gone already)
DeleteProductSucceeds(k) ==
    LET call == masterCalls[k]
    IN /\ call.op = "deleteProduct"
       /\ storeProducts' = [storeProducts EXCEPT ![Val(call.docId)] = None]
       /\ products' = WithoutId(products, call.id)
       /\ masterCalls' = RemoveAt(masterCalls, k)
       /\ lastMaster' = MasterReturn(TRUE)
       /\ UNCHANGED << customers, storeCustomers, sessionVars >>

\* handleUpdateProduct up to `await updateDoc`; without a document to update the
\* handler goes straight to setProducts
UpdateProductStart(i, name, price) ==
    /\ MasterShown
    /\ i \in 1..Len(products)
    /\ IF IsSet(TargetDoc(products[i]))
       THEN /\ masterCalls' = Append(masterCalls,
                  MasterCall("updateProduct", products[i].id, TargetDoc(products[i]),
                             name, price))
            /\ lastMaster' = None
            /\ UNCHANGED products
       ELSE /\ products' = Repriced(products, products[i].id, name, price)
            /\ lastMaster' = MasterReturn(TRUE)
            /\ UNCHANGED masterCalls
    /\ UNCHANGED << customers, storeProducts, storeCustomers, sessionVars >>

\* a handleUpdateProduct whose change reaches the line items of stored invoices
UpdateProductSucceedsCascading(k) ==
    LET call == masterCalls[k]
    IN /\ call.op = "updateProduct"
       /\ IsSet(storeProducts[Val(call.docId)])
       /\ storeProducts' = [storeProducts EXCEPT ![Val(call.docId)] =
             Some([Val(@) EXCEPT !.name = call.name, !.price = call.price])]
       /\ products' = Repriced(products, call.id, call.name, call.price)
       /\ storeInvoices' =
             [n \in 1..Len(storeInvoices) |->
                 [storeInvoices[n] EXCEPT !.items =
                     [m \in 1..Len(@) |->
                         IF @[m].product.id = call.id
                         THEN [@[m] EXCEPT !.product.name = call.name,
                                           !.product.price = call.price]
                         ELSE @[m]]]]
       /\ masterCalls' = RemoveAt(masterCalls, k)
       /\ lastMaster' = MasterReturn(TRUE)
       /\ UNCHANGED << customers, storeCustomers, user, view, currentInvoice,
                       editingInvoice, firmDetails, isSaving, storeFirm, saves,
                       firmSubmits, created, lastSave, lastPreview, printed, firm0 >>

\* updateDoc resolves: the document exists
UpdateProductSucceeds(k) ==
    LET call == masterCalls[k]
    IN /\ call.op = "updateProduct"
       /\ IsSet(storeProducts[Val(call.docId)])
       /\ storeProducts' = [storeProducts EXCEPT ![Val(call.docId)] =
             Some([Val(@) EXCEPT !.name = call.name, !.price = call.price])]
       /\ products' = Repriced(products, call.id, call.name, call.price)
       /\ masterCalls' = RemoveAt(masterCalls, k)
       /\ lastMaster' = MasterReturn(TRUE)
       /\ UNCHANGED << customers, storeCustomers, sessionVars >>

\* the store call of a product or customer handler rejects: the catch block
\* logs, alerts and returns
MasterCallFails(k) ==
    /\ masterCalls' = RemoveAt(masterCalls, k)
    /\ lastMaster' = MasterReturn(FALSE)
    /\ UNCHANGED << products, customers, storeProducts, storeCustomers, sessionVars >>

-----------------------------------------------------------------------------
(* Master data: customers (App.handleAddCustomer / UpdateCustomer / DeleteCustomer) *)

CustomerNames == {"asha", "bina", "chet"}

\* handleAddCustomer up to `await addDoc`
AddCustomerStart(name) ==
    /\ MasterShown
    /\ masterCalls' = Append(masterCalls, MasterCall("addCustomer", 0, None, name, 0))
    /\ lastMaster' = None
    /\ UNCHANGED << products, customers, storeProducts, storeCustomers, sessionVars >>

\* a handleAddCustomer that appends the new customer without sorting
AddCustomerSucceedsUnsorted(k) ==
    LET call == masterCalls[k]
        docId == Len(storeCustomers) + 1
    IN /\ call.op = "addCustomer"
       /\ storeCustomers' = Append(storeCustomers,
             Some([ name |-> call.name, phone |-> StockCustomer.phone,
                    userId |-> call.uid ]))
       /\ customers' = Append(customers,
             [ id |-> docId, name |-> call.name, phone |-> StockCustomer.phone,
               userId |-> call.uid ])
       /\ masterCalls' = RemoveAt(masterCalls, k)
       /\ lastMaster' = MasterReturn(TRUE)
       /\ UNCHANGED << products, storeProducts, sessionVars >>

\* addDoc resolves: setCustomers(prev => [...prev, newCustomer].sort(...))
AddCustomerSucceeds(k) ==
    LET call == masterCalls[k]
        docId == Len(storeCustomers) + 1
    IN /\ call.op = "addCustomer"
       /\ storeCustomers' = Append(storeCustomers,
             Some([ name |-> call.name, phone |-> StockCustomer.phone,
                    userId |-> call.uid ]))
       /\ customers' = SortByName(Append(customers,
             [ id |-> docId, name |-> call.name, phone |-> StockCustomer.phone,
               userId |-> call.uid ]))
       /\ masterCalls' = RemoveAt(masterCalls, k)
       /\ lastMaster' = MasterReturn(TRUE)
       /\ UNCHANGED << products, storeProducts, sessionVars >>

\* handleUpdateCustomer up to `await updateDoc`
UpdateCustomerStart(i, name) ==
    /\ MasterShown
    /\ i \in 1..Len(customers)
    /\ masterCalls' = Append(masterCalls,
          MasterCall("updateCustomer", customers[i].id, Some(customers[i].id), name, 0))
    /\ lastMaster' = None
    /\ UNCHANGED << products, customers, storeProducts, storeCustomers, sessionVars >>

\* updateDoc resolves: the document exists
UpdateCustomerSucceeds(k) ==
    LET call == masterCalls[k]
    IN /\ call.op = "updateCustomer"
       /\ IsSet(storeCustomers[call.id])
       /\ storeCustomers' = [storeCustomers EXCEPT ![call.id] =
             Some([Val(@) EXCEPT !.name = call.name])]
       /\ customers' = SortByName(
             [i \in 1..Len(customers) |->
                 IF customers[i].id = call.id
                 THEN [customers[i] EXCEPT !.name = call.name]
                 ELSE customers[i]])
       /\ masterCalls' = RemoveAt(masterCalls, k)
       /\ lastMaster' = MasterReturn(TRUE)
       /\ UNCHANGED << products, storeProducts, sessionVars >>

\* CustomerManager.handleAddCustomer without the check of the trimmed name
FormAddCustomerUnchecked(text) == AddCustomerStart(Join(Trim(text)))

\* CustomerManager.handleAddCustomer: the trimmed name is required, then onAddCustomer
FormAddCustomer(text) ==
    LET name == Trim(text)
    IN IF name = <<>>
       THEN /\ MasterShown
            /\ lastMaster' = MasterRejected          \* setError('Customer name is required.')
            /\ UNCHANGED << products, customers, storeProducts, storeCustomers,
                            masterCalls, sessionVars >>
       ELSE AddCustomerStart(Join(name))

\* CustomerManager.handleSaveEdit: the trimmed name is required, then onUpdateCustomer
FormSaveCustomerEdit(i, text) ==
    LET name == Trim(text)
    IN IF name = <<>>
       THEN /\ MasterShown
            /\ i \in 1..Len(customers)
            /\ lastMaster' = MasterRejected          \* alert('Customer name cannot be empty.')
            /\ UNCHANGED << products, customers, storeProducts, storeCustomers,
                            masterCalls, sessionVars >>
       ELSE UpdateCustomerStart(i, Join(name))

\* handleDeleteCustomer, confirmed, up to `await deleteDoc`
DeleteCustomerStart(i) ==
    /\ MasterShown
    /\ i \in 1..Len(customers)
    /\ masterCalls' = Append(masterCalls,
          MasterCall("deleteCustomer", customers[i].id, Some(customers[i].id), "", 0))
    /\ lastMaster' = None
    /\ UNCHANGED << products, customers, storeProducts, storeCustomers, sessionVars >>

\* deleteDoc resolves (also for a document that is gone already)
DeleteCustomerSucceeds(k) ==
    LET call == masterCalls[k]
    IN /\ call.op = "deleteCustomer"
       /\ storeCustomers' = [storeCustomers EXCEPT ![call.id] = None]
       /\ customers' = SelectSeq(customers, LAMBDA c : c.id # call.id)
       /\ masterCalls' = RemoveAt(masterCalls, k)
       /\ lastMaster' = MasterReturn(TRUE)
       /\ UNCHANGED << products, storeProducts, sessionVars >>

-----------------------------------------------------------------------------
(* Specification of a master-data session: the owner manages products and
   customers; no invoice is open *)

\* what the owner types into the product and customer forms of the session
ProductNames == {"ghee"}
ProductPrices == {120}
TypedCustomerNames == {"asha"}
RenamedCustomerNames == {"chet"}

\* bounds of a session: calls awaiting the store, documents ever created
CallsBelow(n) == Len(masterCalls) < n
ProductDocsBelow(n) == Len(storeProducts) < n
CustomerDocsBelow(n) == Len(storeCustomers) < n

InitMaster == InitSessionIn(OverlapFirms, "manage")

NextMaster ==
    \/ /\ CallsBelow(MaxMasterInFlight)
       /\ \E name \in ProductNames, price \in ProductPrices : AddProductStart(name, price)
    \/ /\ ProductDocsBelow(MaxProductDocs)
       /\ \E k \in 1..Len(masterCalls) : AddProductSucceeds(k)
    \/ /\ CallsBelow(MaxMasterInFlight)
       /\ \E i \in 1..Len(products) : DeleteProductStart(i)
    \/ \E k \in 1..Len(masterCalls) : DeleteProductSucceeds(k)
    \/ /\ CallsBelow(MaxMasterInFlight)
       /\ \E i \in 1..Len(products), price \in ProductPrices :
            UpdateProductStart(i, products[i].name, price)
    \/ \E k \in 1..Len(masterCalls) : UpdateProductSucceeds(k)
    \/ /\ CallsBelow(MaxMasterInFlight)
       /\ \E name \in TypedCustomerNames : AddCustomerStart(name)
    \/ /\ CustomerDocsBelow(MaxCustomerDocs)
       /\ \E k \in 1..Len(masterCalls) : AddCustomerSucceeds(k)
    \/ /\ CallsBelow(MaxMasterInFlight)
       /\ \E i \in 1..Len(customers), name \in RenamedCustomerNames :
            UpdateCustomerStart(i, name)
    \/ \E k \in 1..Len(masterCalls) : UpdateCustomerSucceeds(k)
    \/ /\ CallsBelow(MaxMasterInFlight)
       /\ \E i \in 1..Len(customers) : DeleteCustomerStart(i)
    \/ \E k \in 1..Len(masterCalls) : DeleteCustomerSucceeds(k)
    \/ \E k \in 1..Len(masterCalls) : MasterCallFails(k)

SpecMaster == InitMaster /\ [][NextMaster]_vars

\* C19: a product or customer add, update or delete whose store call fails leaves
\* the local product list and the local customer list exactly as they were
\* before the operation: the step in which the call fails changes neither list,
\* and neither does the step that issued the call.
C19_FailureLeavesListsUnchanged ==
    [][ /\ lastMaster' = MasterReturn(FALSE)
           => products' = products /\ customers' = customers
        /\ Len(masterCalls') > Len(masterCalls)
           => products' = products /\ customers' = customers ]_vars

\* a store call has just failed in a session that had added a product and a customer
C19_Witness ==
    /\ lastMaster = MasterReturn(FALSE)
    /\ Len(products) = 2 /\ Len(customers) = 2
    /\ masterCalls = <<>>

-----------------------------------------------------------------------------
(* Specification of a product session: adds and deletes, an add may be issued
   while an earlier one is awaiting the store (onAddProduct returns void, so the
   product form cannot wait for it) *)

NextProducts ==
    \/ /\ CallsBelow(MaxMasterInFlight + 1)
       /\ \E name \in ProductNames, price \in ProductPrices : AddProductStart(name, price)
    \/ /\ ProductDocsBelow(MaxProductDocs + 1)
       /\ \E k \in 1..Len(masterCalls) : AddProductSucceeds(k)
    \/ /\ CallsBelow(MaxMasterInFlight + 1)
       /\ \E i \in 1..Len(products) : DeleteProductStart(i)
    \/ \E k \in 1..Len(masterCalls) : DeleteProductSucceeds(k)
    \/ \E k \in 1..Len(masterCalls) : MasterCallFails(k)

SpecProducts == InitMaster /\ [][NextProducts]_vars

\* the product documents of the signed-in owner
StoredProductDocs ==
    { d \in 1..Len(storeProducts) :
        IsSet(storeProducts[d]) /\ Val(storeProducts[d]).userId = Val(user) }

\* C20: after any adds and deletes of products, also with an add issued while an
\* earlier add is awaiting the store, no two products of the owner's local list
\* and no two of the owner's stored products have the same numeric id.
C20_ProductIdsAreUnique ==
    /\ \A i, j \in 1..Len(products) : i # j => products[i].id # products[j].id
    /\ \A d, e \in StoredProductDocs :
         d # e => Val(storeProducts[d]).id # Val(storeProducts[e]).id

-----------------------------------------------------------------------------
(* Specification of a catalogue session: the owner bills products of the list,
   saves the invoices, and deletes, renames and re-prices products *)

CatalogViews == {"form", "manage"}

\* the billing form offers the products of the list
CatalogItemLists == { << BillItem(products[i], 2, None) >> : i \in 1..Len(products) }

\* a firm with freeform numbers: saving an invoice leaves the firm record alone
CatalogFirms ==
    { Firm(ShreeOilMill, <<>>, Some(InvoiceFormat("freeform", None, None))) }

InitCatalog == InitSession(CatalogFirms)

NextCatalog ==
    \/ \E v \in CatalogViews : SwitchView(v) /\ UNCHANGED billingFrame
    \/ GenerateBill(CatalogItemLists, SessionTimes) /\ UNCHANGED billingFrame
    \/ Back /\ UNCHANGED billingFrame
    \/ PrintSave /\ UNCHANGED billingFrame
    \/ \E k \in 1..Len(saves) : InvoiceCreateSucceeds(k) /\ UNCHANGED billingFrame
    \/ \E k \in 1..Len(saves) : InvoiceWriteFails(k) /\ UNCHANGED billingFrame
    \/ /\ CallsBelow(MaxMasterInFlight)
       /\ \E i \in 1..Len(products) : DeleteProductStart(i)
    \/ \E k \in 1..Len(masterCalls) : DeleteProductSucceeds(k)
    \/ /\ CallsBelow(MaxMasterInFlight)
       /\ \E i \in 1..Len(products) :
            \E name \in {products[i].name} \cup ProductNames,
               price \in {products[i].price} \cup ProductPrices :
                 UpdateProductStart(i, name, price)
    \/ \E k \in 1..Len(masterCalls) : UpdateProductSucceeds(k)
    \/ \E k \in 1..Len(masterCalls) : MasterCallFails(k)

SpecCatalog == InitCatalog /\ [][NextCatalog]_vars

\* a step of handleDeleteProduct or handleUpdateProduct
ProductStep ==
    \/ products' # products
    \/ storeProducts' # storeProducts
    \/ masterCalls' # masterCalls

\* the invoice's line item for product 1 still reads as it was billed
BilledAsOil(invoice) ==
    /\ Len(invoice.items) = 1
    /\ invoice.items[1].product.id = StockProduct.id
    /\ invoice.items[1].product.name = StockProduct.name
    /\ invoice.items[1].product.price = StockProduct.price
    /\ invoice.items[1].quantity = 2
    /\ invoice.subtotal = CalcSubtotal(invoice.items)
    /\ invoice.grandTotal = CalcGrandTotal(invoice.items)

\* C17: deleting, renaming or re-pricing a product leaves every stored invoice,
\* its line items (product name, price, quantity, rate) and its totals, as it was.
C17_StoredInvoicesAreFrozen ==
    [][ ProductStep => storeInvoices' = storeInvoices ]_vars

\* an invoice billed product 1 as oil at 100; the product has since been renamed,
\* re-priced or deleted, and the stored invoice still shows what was billed
C17_Witness ==
    /\ lastMaster = MasterReturn(TRUE)
    /\ \E n \in 2..Len(storeInvoices) : BilledAsOil(storeInvoices[n])
    /\ \A i \in 1..Len(products) :
         products[i].id = StockProduct.id
           => products[i].name # StockProduct.name /\ products[i].price # StockProduct.price

-----------------------------------------------------------------------------
(* Printing persisted invoices *)

\* the invoice on screen is persisted and reached the screen without the edit
\* flow and without having been created from this preview: it was opened from
\* the history
OpenedFromHistory ==
    /\ IsSet(currentInvoice)
    /\ IsSet(Val(currentInvoice).id)
    /\ ~created
    /\ ~IsSet(editingInvoice)

\* C18: printing a persisted invoice that was opened from the history, not through
\* the edit flow, issues no store write: no step taken with such an invoice on
\* screen starts a save.
C18_HistoryPrintWritesNothing ==
    [][ OpenedFromHistory => Len(saves') <= Len(saves) ]_vars

-----------------------------------------------------------------------------
(* Specification of a customer session: adds, renames and deletes of customers,
   and sign-out / sign-in, which reloads the list from the store *)

NextCustomers ==
    \/ SwitchView("manage") /\ UNCHANGED billingFrame
    \/ Logout /\ UNCHANGED storeFrame
    \/ Login("u1") /\ UNCHANGED storeFrame
    \/ /\ CallsBelow(MaxMasterInFlight)
       /\ \E name \in TypedCustomerNames : AddCustomerStart(name)
    \/ /\ CustomerDocsBelow(MaxCustomerDocs)
       /\ \E k \in 1..Len(masterCalls) : AddCustomerSucceeds(k)
    \/ /\ CallsBelow(MaxMasterInFlight)
       /\ \E i \in 1..Len(customers), name \in RenamedCustomerNames :
            UpdateCustomerStart(i, name)
    \/ \E k \in 1..Len(masterCalls) : UpdateCustomerSucceeds(k)
    \/ /\ CallsBelow(MaxMasterInFlight)
       /\ \E i \in 1..Len(customers) : DeleteCustomerStart(i)
    \/ \E k \in 1..Len(masterCalls) : DeleteCustomerSucceeds(k)
    \/ \E k \in 1..Len(masterCalls) : MasterCallFails(k)

SpecCustomers == InitMaster /\ [][NextCustomers]_vars

\* C21: after every completed load, add, update (a rename included) and delete
\* of customers the local customer list is sorted by name.
C21_CustomersSortedByName ==
    \A i, j \in 1..Len(customers) :
        i < j => NameRank(customers[i].name) <= NameRank(customers[j].name)

\* asha was added in front of the stock customer bina and then renamed to chet,
\* which moved her behind bina
C21_Witness ==
    /\ lastMaster = MasterReturn(TRUE)
    /\ Len(customers) = 2
    /\ customers[1].id = StockCustomer.id /\ customers[1].name = "bina"
    /\ customers[2].id = 2 /\ customers[2].name = "chet"

-----------------------------------------------------------------------------
(* Specification of the customer forms: what the owner types goes through
   CustomerManager before it reaches the handlers of App *)

\* texts typed into the name field of the add form and of the edit row
TypedCustomerTexts ==
    { <<>>, << " " >>, << " ", " " >>,
      << " ", "a", "s", "h", "a", " " >>, << "c", "h", "e", "t" >> }

NextCustomerForm ==
    \/ /\ CallsBelow(MaxMasterInFlight)
       /\ \E text \in TypedCustomerTexts : FormAddCustomer(text)
    \/ /\ CustomerDocsBelow(MaxCustomerDocs)
       /\ \E k \in 1..Len(masterCalls) : AddCustomerSucceeds(k)
    \/ /\ CallsBelow(MaxMasterInFlight)
       /\ \E i \in 1..Len(customers), text \in TypedCustomerTexts :
            FormSaveCustomerEdit(i, text)
    \/ \E k \in 1..Len(masterCalls) : UpdateCustomerSucceeds(k)
    \/ /\ CallsBelow(MaxMasterInFlight)
       /\ \E i \in 1..Len(customers) : DeleteCustomerStart(i)
    \/ \E k \in 1..Len(masterCalls) : DeleteCustomerSucceeds(k)
    \/ \E k \in 1..Len(masterCalls) : MasterCallFails(k)

SpecCustomerForm == InitMaster /\ [][NextCustomerForm]_vars

\* the names the customer handlers of App were called with, still awaiting the store
NamesInFlight ==
    { masterCalls[k].name :
        k \in { n \in 1..Len(masterCalls) :
                  masterCalls[n].op \in {"addCustomer", "updateCustomer"} } }

\* C22: a customer add or a customer edit whose name is empty or only whitespace
\* is rejected before any store call: no add or update with an empty name is
\* ever sent or stored, and the step that reports the error sends nothing and
\* leaves the customer list and the store unchanged.
C22_BlankNameIsRejected ==
    /\ [][ lastMaster' = MasterRejected
             => /\ masterCalls' = masterCalls
                /\ customers' = customers
                /\ storeCustomers' = storeCustomers ]_vars
    /\ [](/\ "" \notin NamesInFlight
          /\ \A i \in 1..Len(customers) : customers[i].name # ""
          /\ \A d \in 1..Len(storeCustomers) :
               IsSet(storeCustomers[d]) => Val(storeCustomers[d]).name # "")

\* a blank name has just been rejected in a session that holds two customers
C22_Witness ==
    /\ lastMaster = MasterRejected
    /\ Len(customers) = 2
    /\ masterCalls = <<>>

-----------------------------------------------------------------------------
(* After a failed save *)

\* the step in which call k, started from the Invoice component still on screen,
\* returns false
LiveSaveFails(k) ==
    /\ saves[k].live
    /\ saves' = RemoveAt(saves, k)
    /\ IsSet(lastSave') /\ ~Val(lastSave').result

\* Save & Print would start a save again
SaveCanStart ==
    /\ IsSet(currentInvoice) /\ ~isSaving /\ IsSet(user)
    /\ view = "form" \/ ~IsSet(Val(currentInvoice).id)

\* C23: after a failed invoice save the saving flag is cleared, the preview that
\* was being saved is still displayed with its number, items and totals, nothing
\* is printed, and the user can start the save again.
C23_FailedSaveIsReactionable ==
    [][ \A k \in 1..Len(saves) :
          LiveSaveFails(k)
            => /\ ~isSaving'
               /\ currentInvoice' = Some(saves[k].inv)
               /\ printed' = None
               /\ SaveCanStart' ]_vars

-----------------------------------------------------------------------------
(* The custom invoice prefix *)

\* texts typed into the Custom Prefix field: a short one, one of mixed case with
\* punctuation, one of more than ten characters
SettingsPrefixTexts ==
    TypedPrefixes \cup
    { << "a", "b", ".", "C", "1" >>,
      << "s", "h", "r", "e", "e", "o", "i", "l", "m", "i", "l", "l" >> }

SettingsViews == {"settings", "form", "history"}

InitSettings == InitSessionIn(SessionFirms, "settings")

NextSettings ==
    \/ \E v \in SettingsViews : SwitchView(v) /\ UNCHANGED billingFrame
    \/ FirmSubmitStart(TypedFirmNames, SettingsPrefixTexts) /\ UNCHANGED masterVars
    \/ \E k \in 1..Len(firmSubmits) : FirmSubmitSucceeds(k) /\ UNCHANGED masterVars
    \/ \E k \in 1..Len(firmSubmits) : FirmSubmitFails(k) /\ UNCHANGED masterVars

SpecSettings == InitSettings /\ [][NextSettings]_vars

\* a prefix as the settings form documents it: 3-10 characters, letters / numbers,
\* upper case
DocumentedPrefix(prefix) ==
    /\ Len(prefix) >= 3 /\ Len(prefix) <= 10
    /\ \A n \in 1..Len(prefix) : prefix[n] \in UpperCase \cup Digit

\* C24: a configured (non-empty) custom invoice prefix, in the stored firm record
\* and in the local firm details, is 3 to 10 characters long and consists of
\* upper-case letters and digits only, whatever was typed into the prefix field.
C24_CustomPrefixIsWellFormed ==
    \A firm \in {storeFirm, firmDetails} :
        IsSet(firm) /\ Val(firm).customInvoicePrefix # <<>>
          => DocumentedPrefix(Val(firm).customInvoicePrefix)

-----------------------------------------------------------------------------
(* What reaches window.print *)

\* C25: an invoice without an id is never printed: a step prints only when a save
\* has just returned success or when the invoice on screen was persisted before
\* the click and no save was started; a step in which a save fails prints nothing.
C25_OnlyPersistedInvoicesArePrinted ==
    [][ /\ IsSet(printed')
           => /\ IsSet(Val(printed').id)
              /\ \/ IsSet(lastSave') /\ Val(lastSave').result
                 \/ /\ IsSet(currentInvoice) /\ IsSet(Val(currentInvoice).id)
                    /\ printed' = currentInvoice
                    /\ saves' = saves
        /\ IsSet(lastSave') /\ ~Val(lastSave').result => printed' = None ]_vars

\* the preview has just been saved as a new record and printed with its id
C25_Witness ==
    /\ IsSet(printed) /\ IsSet(Val(printed).id)
    /\ IsSet(lastSave) /\ Val(lastSave).result /\ Val(lastSave).created
    /\ printed = currentInvoice

-----------------------------------------------------------------------------
(* Specification of a retry session in sequential mode: one save at a time,
   store calls may fail, the user may save again or go back *)

NextRetry ==
    \/ GenerateBill(SessionItemLists, SessionTimes) /\ UNCHANGED billingFrame
    \/ Back /\ UNCHANGED billingFrame
    \/ PrintSave /\ UNCHANGED billingFrame
    \/ PrintOnly /\ UNCHANGED billingFrame
    \/ \E k \in 1..Len(saves) :
         InvoiceCreateSucceedsWithin(k, MaxInvoices + 1) /\ UNCHANGED billingFrame
    \/ \E k \in 1..Len(saves) : InvoiceWriteFails(k) /\ UNCHANGED billingFrame
    \/ \E k \in 1..Len(saves) : CounterUpdateSucceeds(k) /\ UNCHANGED billingFrame
    \/ \E k \in 1..Len(saves) : CounterUpdateFails(k) /\ UNCHANGED billingFrame

SpecRetry == InitOverlap /\ [][NextRetry]_vars

\* the records created in this session: those behind the earlier invoice
SessionRecords == 2..Len(storeInvoices)

\* C26: in sequential mode no two invoice records created in one session carry
\* the same invoiceNumber, whatever the sequence of generate, save, store
\* failure, retry and Back.
C26_SessionNumbersAreDistinct ==
    \A i, j \in SessionRecords :
        i # j => storeInvoices[i].invoiceNumber # storeInvoices[j].invoiceNumber

\* C27: whenever no save is in flight, the currentNumber of the local firm details
\* equals the currentNumber of the stored firm record, also after a save in which
\* a store call failed.
C27_LocalCounterMatchesStore ==
    (saves = <<>> /\ IsSet(firmDetails) /\ IsSet(storeFirm))
        => CurrentNumberOf(firmDetails) = CurrentNumberOf(storeFirm)

-----------------------------------------------------------------------------
(* Completion of a save after the user has navigated away *)

\* the step in which call k returns true although its invoice has left the screen
StaleSaveCompletes(k) ==
    /\ ~saves[k].live
    /\ currentInvoice # Some(saves[k].inv)
    /\ saves' = RemoveAt(saves, k)
    /\ IsSet(lastSave') /\ Val(lastSave').result

\* C28: the completion of a save whose invoice is no longer on screen (the user
\* went back, to another view, to another bill or to an edit while the save was
\* in flight) leaves currentInvoice, editingInvoice and view as the user set them.
C28_StaleCompletionLeavesScreen ==
    [][ \A k \in 1..Len(saves) :
          StaleSaveCompletes(k)
            => /\ currentInvoice' = currentInvoice
               /\ editingInvoice' = editingInvoice
               /\ view' = view ]_vars

-----------------------------------------------------------------------------
(* Specification of the written record: bills with rates of 0, set and unset,
   saved as new records and as updates of edited ones *)

RecordItemLists ==
    { << BillItem(Product1, 2, Some(0)), BillItem(Product2, 1, None) >>,
      << BillItem(Product2, 3, Some(18)) >> }

RecordViews == {"form", "history"}

NextRecord ==
    \/ GenerateBill(RecordItemLists, SessionTimes) /\ UNCHANGED billingFrame
    \/ Back /\ UNCHANGED billingFrame
    \/ \E v \in RecordViews : SwitchView(v) /\ UNCHANGED billingFrame
    \/ \E i \in 1..Len(storeInvoices) : ViewInvoice(i) /\ UNCHANGED billingFrame
    \/ \E i \in 1..Len(storeInvoices) : EditInvoice(i) /\ UNCHANGED billingFrame
    \/ PrintSave /\ UNCHANGED billingFrame
    \/ PrintOnly /\ UNCHANGED billingFrame
    \/ \E k \in 1..Len(saves) : InvoiceUpdateSucceeds(k) /\ UNCHANGED billingFrame
    \/ \E k \in 1..Len(saves) : InvoiceCreateSucceeds(k) /\ UNCHANGED billingFrame
    \/ \E k \in 1..Len(saves) : InvoiceWriteFails(k) /\ UNCHANGED billingFrame

SpecRecord == InitCatalog /\ [][NextRecord]_vars

\* record rec carries what the previewed invoice inv showed, and no id
RecordOfPreview(rec, inv) ==
    /\ "id" \notin DOMAIN rec
    /\ rec.invoiceNumber = inv.invoiceNumber
    /\ rec.customerName = inv.customerName /\ rec.customerPhone = inv.customerPhone
    /\ rec.userId = inv.userId /\ rec.date = inv.date
    /\ rec.subtotal = inv.subtotal /\ rec.gstAmount = inv.gstAmount
    /\ rec.grandTotal = inv.grandTotal
    /\ Len(rec.items) = Len(inv.items)
    /\ \A n \in 1..Len(inv.items) :
         /\ rec.items[n].product.id = inv.items[n].product.id
         /\ rec.items[n].product.name = inv.items[n].product.name
         /\ rec.items[n].product.price = inv.items[n].product.price
         /\ rec.items[n].quantity = inv.items[n].quantity
         /\ IsSet(inv.items[n].gstRate) => rec.items[n].gstRate = inv.items[n].gstRate

\* C29: the record written by a create or an update save has the invoiceNumber,
\* customer name and phone, userId, date, subtotal, gstAmount and grandTotal of
\* the previewed invoice and its line items in order (product id, name, price,
\* quantity, and the gstRate whenever it is set, 0 included), and has no id field.
C29_RecordIsThePreview ==
    [][ storeInvoices' # storeInvoices
          => \E k \in 1..Len(saves) :
               LET inv == saves[k].inv
               IN IF IsSet(inv.id)
                  THEN /\ Len(storeInvoices') = Len(storeInvoices)
                       /\ RecordOfPreview(storeInvoices'[Val(inv.id)], inv)
                       /\ \A i \in 1..Len(storeInvoices) :
                            i # Val(inv.id) => storeInvoices'[i] = storeInvoices[i]
                  ELSE /\ Len(storeInvoices') = Len(storeInvoices) + 1
                       /\ RecordOfPreview(storeInvoices'[Len(storeInvoices')], inv)
                       /\ SubSeq(storeInvoices', 1, Len(storeInvoices)) = storeInvoices
      ]_vars

\* the earlier invoice has been edited into a bill with a rate of 0 and saved
\* as an update, and a new bill has been saved as a new record
C29_Witness ==
    /\ Len(storeInvoices) = 2
    /\ storeInvoices[1].items[1].gstRate = Some(0)
    /\ storeInvoices[1].invoiceNumber = EarlierInvoice.invoiceNumber
    /\ storeInvoices[2].items[1].gstRate = Some(18)

-----------------------------------------------------------------------------
(* Specification of overlapping product operations: adds, updates and deletes
   that all succeed, issued without waiting for the store *)

NextProductOps ==
    \/ /\ CallsBelow(MaxMasterInFlight + 1)
       /\ \E name \in ProductNames, price \in ProductPrices : AddProductStart(name, price)
    \/ /\ ProductDocsBelow(MaxProductDocs + 1)
       /\ \E k \in 1..Len(masterCalls) : AddProductSucceeds(k)
    \/ /\ CallsBelow(MaxMasterInFlight + 1)
       /\ \E i \in 1..Len(products) : DeleteProductStart(i)
    \/ \E k \in 1..Len(masterCalls) : DeleteProductSucceeds(k)
    \/ /\ CallsBelow(MaxMasterInFlight + 1)
       /\ \E i \in 1..Len(products), price \in ProductPrices :
            UpdateProductStart(i, products[i].name, price)
    \/ \E k \in 1..Len(masterCalls) : UpdateProductSucceeds(k)

SpecProductOps == InitMaster /\ [][NextProductOps]_vars

\* the local entry is the copy of stored document d
LocalCopyOf(p, d) ==
    /\ p.docId = Some(d)
    /\ p.id = Val(storeProducts[d]).id
    /\ p.name = Val(storeProducts[d]).name
    /\ p.price = Val(storeProducts[d]).price

\* C30: once product adds, updates and deletes that all succeeded have completed
\* (they may have overlapped while awaiting the store), the local product list
\* holds exactly the owner's stored products: one entry per stored record, with
\* the same id, name and price.
C30_LocalListMirrorsStore ==
    masterCalls = <<>> =>
        /\ \A d \in StoredProductDocs :
             Cardinality({ i \in 1..Len(products) : LocalCopyOf(products[i], d) }) = 1
        /\ \A i \in 1..Len(products) :
             \E d \in StoredProductDocs : LocalCopyOf(products[i], d)

====
